---- MODULE Spec2Model ----
(***************************************************************************)
(* timer_ship: a durable timer engine.  A min-heap of timers (Timers), a   *)
(* payload map (TimerData), an append-only operation log behind a          *)
(* BufWriter (OpLog), replay of the log at start-up, and one dispatcher    *)
(* thread that removes due timers and invokes the callback.                *)
(*                                                                         *)
(* Every action is one step between two acquisitions of a mutex (heap,     *)
(* payload map, log writer), so the interleavings of caller threads, the   *)
(* dispatcher and a process crash are those the locks allow.               *)
(***************************************************************************)
EXTENDS Integers, Sequences, FiniteSets, TLC

\* ------------------------------------------------------------------ bounds
MaxTimers == 2
NumClients == 2
MaxCalls == 3
MaxTicks == 2
TickMs == 50
MaxCrashes == 2
MaxIoErrors == 1
TimedTicks == 5
MaxLog == 4
MaxQueue == 4
MaxText == 4
MaxLiveLog == 2

\* --------------------------------------------------------------- constants
\* f64: the bits of the significand
Precision == 53
\* u64: its bits
U64Bits == 64
\* thread::sleep(Duration::from_millis(100)) of the dispatcher on an empty queue
PollInterval == 100

Ids == 1..MaxTimers
\* a Uuid that no set_timer_at ever draws: what a caller passes to remove_timer
\* when it passes an id the engine never issued
UnknownId == MaxTimers + 1
Clients == 1..NumClients
Payloads == {"x", "é"}
\* the payloads with a character of more than one byte in UTF-8
MultiByte == {"é"}
MaxTime == MaxTicks * TickMs
Deadlines == {k * TickMs : k \in 1..2}
\* the clock of the timed runs goes on to TimedEnd
TimedEnd == TimedTicks * TickMs
NoData == "none"
NoTimer == [id |-> 0, expires_at |-> 0]

Min(a, b) == IF a <= b THEN a ELSE b

\* ------------------------------------------------------------ core/timer.rs
\* Timer::with_id / Timer::new (the id is drawn by the caller of this operator)
Timer(expires_at, id) == [id |-> id, expires_at |-> expires_at]

\* a faulty is_expired, one tick early: C3 must exclude it
is_expired_early(t, current_time) == current_time + TickMs >= t.expires_at

is_expired(t, current_time) == current_time >= t.expires_at

get_time_left(t, current_time) ==
    IF t.expires_at > current_time THEN t.expires_at - current_time ELSE 0

\* ------------------------------------------------- utils/duration_parser.rs
\* A duration text is a sequence of characters.
Digits == {"0", "1", "2", "3", "4", "5", "6", "7", "8", "9"}
DigitVal(ch) ==
    CASE ch = "0" -> 0 [] ch = "1" -> 1 [] ch = "2" -> 2 [] ch = "3" -> 3
      [] ch = "4" -> 4 [] ch = "5" -> 5 [] ch = "6" -> 6 [] ch = "7" -> 7
      [] ch = "8" -> 8 [] ch = "9" -> 9
Lower == {"h", "m", "r", "s", "x"}
Upper == {"H", "M", "R", "S", "X"}
is_alphabetic(ch) == ch \in Lower \cup Upper
is_whitespace(ch) == ch = " "

char_to_lowercase(ch) ==
    CASE ch = "H" -> "h" [] ch = "M" -> "m" [] ch = "R" -> "r" [] ch = "S" -> "s"
      [] ch = "X" -> "x" [] OTHER -> ch

to_lowercase(s) == [k \in DOMAIN s |-> char_to_lowercase(s[k])]

\* str::trim: without the whitespace at both ends
RECURSIVE trim_start(_)
trim_start(s) ==
    IF s # <<>> /\ is_whitespace(Head(s)) THEN trim_start(Tail(s)) ELSE s

RECURSIVE trim_end(_)
trim_end(s) ==
    IF s # <<>> /\ is_whitespace(s[Len(s)])
    THEN trim_end(SubSeq(s, 1, Len(s) - 1)) ELSE s

trim(s) == trim_end(trim_start(s))

\* the loop over char_indices: the index (from 0) of the first alphabetic
\* character, and 0 when there is none
split_pos(s) ==
    IF \E k \in DOMAIN s : is_alphabetic(s[k])
    THEN (CHOOSE k \in DOMAIN s :
              /\ is_alphabetic(s[k])
              /\ \A j \in 1..(k - 1) : ~is_alphabetic(s[j])) - 1
    ELSE 0

\* str::parse::<f64> on a text without letters: an optional sign, then digits
\* with at most one point and a digit on one side of it at least.
Unsigned(s) == IF s # <<>> /\ Head(s) \in {"+", "-"} THEN Tail(s) ELSE s

DigitsOf(s) == SelectSeq(s, LAMBDA ch : ch \in Digits)

is_f64(s) ==
    /\ \A k \in DOMAIN Unsigned(s) : Unsigned(s)[k] \in Digits \cup {"."}
    /\ Cardinality({k \in DOMAIN Unsigned(s) : Unsigned(s)[k] = "."}) <= 1
    /\ DigitsOf(s) # <<>>

RECURSIVE Mantissa(_)
Mantissa(ds) ==
    IF ds = <<>> THEN 0 ELSE Mantissa(SubSeq(ds, 1, Len(ds) - 1)) * 10 + DigitVal(ds[Len(ds)])

\* the digits after the point
FractionLen(s) ==
    IF \E k \in DOMAIN s : s[k] = "."
    THEN Len(s) - (CHOOSE k \in DOMAIN s : s[k] = ".")
    ELSE 0

RECURSIVE Pow10(_)
Pow10(n) == IF n = 0 THEN 1 ELSE 10 * Pow10(n - 1)

\* number < 0.0 (the f64 -0.0 is not)
is_negative(s) == s # <<>> /\ Head(s) = "-" /\ Mantissa(DigitsOf(s)) # 0

\* ---- f64.  A finite f64 that is not negative is bits * 2^exp: `bits` the
\* significand in binary, first bit first, without zeros at either end and of
\* Precision bits at most (<<>> is 0.0).  The numbers of the texts drawn here
\* are far from the ends of the exponent's range.
F64(bits, exp) == [bits |-> bits, exp |-> exp]

\* the binary digits of n, first bit first
BitsOf(n) ==
    LET len == Cardinality({k \in 0..30 : n \div 2^k > 0})
    IN  [i \in 1..len |-> (n \div 2^(len - i)) % 2]

\* the number of the binary digits: the two halves, one after the other
RECURSIVE IntOf(_)
IntOf(bits) ==
    IF Len(bits) > 1
    THEN IntOf(SubSeq(bits, 1, Len(bits) \div 2)) * 2^(Len(bits) - Len(bits) \div 2)
           + IntOf(SubSeq(bits, Len(bits) \div 2 + 1, Len(bits)))
    ELSE IF bits = <<>> THEN 0 ELSE bits[1]

\* the places of the bits that are b
Places(bits, b) == {k \in DOMAIN bits : bits[k] = b}

First(places) == CHOOSE k \in places : \A j \in places : k <= j
Last(places) == CHOOSE k \in places : \A j \in places : j <= k

\* bits + 1: the last 0 becomes 1 and the ones after it 0
Inc(bits) ==
    IF Places(bits, 0) = {} THEN <<1>> \o [k \in DOMAIN bits |-> 0]
    ELSE [k \in DOMAIN bits |->
            IF k < Last(Places(bits, 0)) THEN bits[k]
            ELSE IF k = Last(Places(bits, 0)) THEN 1 ELSE 0]

\* without the zeros at the end, which go to the exponent
Normal(bits, exp) ==
    IF Places(bits, 1) = {} THEN F64(<<>>, 0)
    ELSE F64(SubSeq(bits, 1, Last(Places(bits, 1))),
             exp + Len(bits) - Last(Places(bits, 1)))

\* without the zeros at the front
StripZeros(bits) ==
    IF Places(bits, 1) = {} THEN <<>>
    ELSE SubSeq(bits, First(Places(bits, 1)), Len(bits))

\* Long numbers are computed 16 bits at a time: the last 16 bits of bits,
\* the bits before them, and the w bits of n < 2^w.
Low(bits) == SubSeq(bits, IF Len(bits) > 16 THEN Len(bits) - 15 ELSE 1, Len(bits))
High(bits) == IF Len(bits) > 16 THEN SubSeq(bits, 1, Len(bits) - 16) ELSE <<>>
Limb(n, w) == [i \in 1..w |-> (n \div 2^(w - i)) % 2]

\* Rounding to nearest, ties to even, of sig * 2^exp (plus something below
\* the last bit of sig when `sticky`) to Precision bits.
RoundF64(sig, sticky, exp) ==
    IF Len(sig) <= Precision THEN Normal(sig, exp)
    ELSE LET keep == SubSeq(sig, 1, Precision)
             rest == SubSeq(sig, Precision + 1, Len(sig))
             more == sticky \/ \E k \in 2..Len(rest) : rest[k] = 1
             up == rest[1] = 1 /\ (more \/ keep[Precision] = 1)
         IN  Normal(IF up THEN Inc(keep) ELSE keep, exp + Len(rest))

\* The binary expansion of (sig + r / d) * 2^(-nfrac), r < d, eight bits at
\* a time, to more bits than the significand holds (nfrac is never negative;
\* the test has it computed at each step).
RECURSIVE Expand(_, _, _, _)
Expand(sig, r, d, nfrac) ==
    IF r = 0 \/ Len(sig) > Precision \/ nfrac < 0
    THEN [sig |-> sig, rem |-> r, nfrac |-> nfrac]
    ELSE Expand(StripZeros(sig \o Limb((2^8 * r) \div d, 8)), (2^8 * r) % d, d,
                nfrac + 8)

\* (bits * k + carry) * 2^Len(low) + low, in binary: bits from its last 16
\* bits to its first (carry and low are never negative; the test has them
\* computed at each step)
RECURSIVE MulBits(_, _, _, _)
MulBits(bits, k, carry, low) ==
    IF bits = <<>> \/ carry < 0 \/ Len(low) < 0 THEN StripZeros(BitsOf(carry) \o low)
    ELSE MulBits(High(bits), k, (IntOf(Low(bits)) * k + carry) \div 2^16,
                 Limb((IntOf(Low(bits)) * k + carry) % 2^16, 16) \o low)

\* the whole number of the decimal digits ds, in binary, four digits at a time
RECURSIVE DecBits(_)
DecBits(ds) ==
    IF ds = <<>> THEN <<>>
    ELSE LET n == IF Len(ds) > 4 THEN 4 ELSE Len(ds) IN
         MulBits(DecBits(SubSeq(ds, 1, Len(ds) - n)), Pow10(n),
                 Mantissa(SubSeq(ds, Len(ds) - n + 1, Len(ds))), <<>>)

\* str::parse::<f64> of the digits ds with f of them after the point: the f64
\* nearest to the number they write
F64OfDecimal(ds, f) ==
    LET e == Expand(DecBits(SubSeq(ds, 1, Len(ds) - f)),
                    Mantissa(SubSeq(ds, Len(ds) - f + 1, Len(ds))), Pow10(f), 0)
    IN  RoundF64(e.sig, e.rem # 0, -e.nfrac)

\* x * k for the f64 k of a whole number: the product, rounded (0.0 * k is
\* 0.0)
F64Mul(x, k) ==
    IF x.bits = <<>> THEN x ELSE RoundF64(MulBits(x.bits, k, 0, <<>>), FALSE, x.exp)

\* number * 60.0 * 1000.0 and the like, from left to right
RECURSIVE F64Product(_, _)
F64Product(x, ks) ==
    IF ks = <<>> \/ x.bits = <<>> THEN x ELSE F64Product(F64Mul(x, Head(ks)), Tail(ks))

\* ---- u64.  A u64 is its binary digits, first bit first, without zeros at
\* the front (<<>> is 0) and of U64Bits bits at most.
U64Max == [k \in 1..U64Bits |-> 1]

\* a + b + carry, in binary, from the last 16 bits to the first
RECURSIVE AddBits(_, _, _, _)
AddBits(a, b, carry, low) ==
    IF (a = <<>> /\ b = <<>>) \/ carry < 0 \/ Len(low) < 0
    THEN StripZeros(BitsOf(carry) \o low)
    ELSE AddBits(High(a), High(b), (IntOf(Low(a)) + IntOf(Low(b)) + carry) \div 2^16,
                 Limb((IntOf(Low(a)) + IntOf(Low(b)) + carry) % 2^16, 16) \o low)

\* the sum of two u64 overflows
Overflows(a, b) == Len(AddBits(a, b, 0, <<>>)) > U64Bits

\* u64 wrapping_add: the sum modulo 2^64
WrappingAdd(a, b) ==
    LET sum == AddBits(a, b, 0, <<>>) IN
    IF Len(sum) > U64Bits
    THEN StripZeros(SubSeq(sum, Len(sum) - U64Bits + 1, Len(sum)))
    ELSE sum

\* `milliseconds as u64`: towards zero, and u64::MAX for what is above it
AsU64(x) ==
    IF x.exp >= 0
    THEN IF Len(x.bits) + x.exp > U64Bits THEN U64Max
         ELSE x.bits \o [k \in 1..(IF x.bits = <<>> THEN 0 ELSE x.exp) |-> 0]
    ELSE IF Len(x.bits) + x.exp <= 0 THEN <<>>
    ELSE SubSeq(x.bits, 1, Len(x.bits) + x.exp)

\* the match on unit_part: what the number is multiplied by, one after the
\* other
UnitMultipliers(u) ==
    CASE u = <<"m", "s">> -> <<>>
      [] u = <<"s">> -> <<1000>>
      [] u = <<"m">> -> <<60, 1000>>
      [] u \in {<<"h">>, <<"h", "r">>} -> <<60, 60, 1000>>
      [] OTHER -> <<>>

\* the match on unit_part: the factor to milliseconds, 0 for an unknown unit
UnitFactor(u) ==
    CASE u = <<"m", "s">> -> 1
      [] u = <<"s">> -> 1000
      [] u = <<"m">> -> 60 * 1000
      [] u = <<"h">> -> 60 * 60 * 1000
      [] u = <<"h", "r">> -> 60 * 60 * 1000
      [] OTHER -> 0

ParseOk(ms) == [ok |-> TRUE, ms |-> ms, err |-> "none"]
ParseErr(e) == [ok |-> FALSE, ms |-> <<>>, err |-> e]

\* parse_duration.  The number is an f64, each product is rounded to an f64,
\* and `as u64` truncates the last; ms is the u64 in binary.
parse_duration(duration_str) ==
    LET s == to_lowercase(trim(duration_str))
        pos == split_pos(s)
        number_part == SubSeq(s, 1, pos)
        unit_part == SubSeq(s, pos + 1, Len(s))
    IN  IF s = <<>> THEN ParseErr("InvalidFormat")
        ELSE IF pos = 0 THEN ParseErr("InvalidFormat")
        ELSE IF ~is_f64(number_part) THEN ParseErr("InvalidNumber")
        ELSE IF is_negative(number_part) THEN ParseErr("InvalidNumber")
        ELSE IF UnitFactor(unit_part) = 0 THEN ParseErr("UnknownUnit")
        ELSE ParseOk(AsU64(F64Product(F64OfDecimal(DigitsOf(number_part),
                                                   FractionLen(number_part)),
                                      UnitMultipliers(unit_part))))

\* ------------------------------------------------------ core/timer_queue.rs
\* impl Ord for TimerHeapItem: the reverse of the order of expires_at, and of
\* nothing else (two items with the same deadline compare Equal).
HeapLe(a, b) == a.expires_at >= b.expires_at
HeapLt(a, b) == a.expires_at > b.expires_at

Swap(s, i, j) == [s EXCEPT ![i] = s[j], ![j] = s[i]]

\* BinaryHeap::sift_up(0, pos), positions counted from 1
RECURSIVE SiftUp(_, _)
SiftUp(s, pos) ==
    IF pos <= 1 THEN s
    ELSE LET parent == pos \div 2 IN
         IF HeapLe(s[pos], s[parent]) THEN s
         ELSE SiftUp(Swap(s, pos, parent), parent)

\* BinaryHeap::sift_down_range(pos, end): the greater child, the second on a tie
RECURSIVE SiftDown(_, _)
SiftDown(s, pos) ==
    LET n == Len(s)
        l == 2 * pos
        r == 2 * pos + 1
    IN  IF l > n THEN s
        ELSE LET child == IF r <= n /\ HeapLe(s[l], s[r]) THEN r ELSE l IN
             IF HeapLt(s[pos], s[child])
             THEN SiftDown(Swap(s, pos, child), child)
             ELSE s

\* BinaryHeap::from(Vec): rebuild, sift_down from the last parent to the root
RECURSIVE RebuildFrom(_, _)
RebuildFrom(s, n) ==
    IF n = 0 THEN s ELSE RebuildFrom(SiftDown(s, n), n - 1)

Rebuild(s) == RebuildFrom(s, Len(s) \div 2)

\* Vec::retain(|item| item.0.id != timer_id): keeps the order of the rest
RECURSIVE Retain(_, _)
Retain(s, id) ==
    IF s = <<>> THEN <<>>
    ELSE IF Head(s).id = id THEN Retain(Tail(s), id)
         ELSE <<Head(s)>> \o Retain(Tail(s), id)

\* a faulty add_timer that writes the new entry over the last one (a push that
\* raced with another): C13 must exclude it
add_timer_over(h, t) ==
    IF h = <<>> THEN <<t>> ELSE SiftUp([h EXCEPT ![Len(h)] = t], Len(h))

\* a faulty add_timer that pushes the entry twice: C26 must exclude it
add_timer_twice(h, t) ==
    SiftUp(Append(SiftUp(Append(h, t), Len(h) + 1), t), Len(h) + 2)

\* Timers::add_timer: BinaryHeap::push
add_timer(h, t) == SiftUp(Append(h, t), Len(h) + 1)

\* Timers::peek_timer: the root of the heap, or None
peek_timer(h) == IF h = <<>> THEN NoTimer ELSE h[1]

\* a faulty remove_timer that takes out the root whatever its id: C10 must
\* exclude it
remove_timer_first(h, id) == IF h = <<>> THEN h ELSE Rebuild(Tail(h))

\* a faulty remove_timer that drains the heap and, when it has found the id,
\* collects nothing back: C34 must exclude it
remove_timer_drained(h, id) == IF Retain(h, id) = h THEN h ELSE <<>>

\* Timers::remove_timer: drain into a Vec, retain, collect into a new heap

remove_timer_queue(h, id) == Rebuild(Retain(h, id))

\* a faulty get_all_timers that yields the root alone: C9 must exclude it
get_all_timers_root(h) == IF h = <<>> THEN <<>> ELSE <<h[1]>>

\* Timers::get_all_timers: the heap's backing vector, in its own order
get_all_timers(h) == h

\* Timers::timer_count
timer_count(h) == Len(h)

\* BinaryHeap::sift_down_to_bottom(pos): the element goes down to a leaf, at
\* each level to the greater child (the second on a tie), and then sift_up
RECURSIVE SiftDownToBottom(_, _)
SiftDownToBottom(s, pos) ==
    LET n == Len(s)
        l == 2 * pos
        r == 2 * pos + 1
    IN  IF r <= n
        THEN LET child == IF HeapLe(s[l], s[r]) THEN r ELSE l IN
             SiftDownToBottom(Swap(s, pos, child), child)
        ELSE IF l = n THEN SiftUp(Swap(s, pos, l), l)
        ELSE SiftUp(s, pos)

\* a faulty pop_timer that takes the last entry of the vector: C27 must
\* exclude it
pop_timer_last(h) ==
    IF h = <<>> THEN [timer |-> NoTimer, heap |-> h]
    ELSE [timer |-> h[Len(h)], heap |-> SubSeq(h, 1, Len(h) - 1)]

\* Timers::pop_timer: BinaryHeap::pop.  The last entry of the vector is taken
\* off, put in the place of the root, which is returned, and sifted down.
pop_timer(h) ==
    IF h = <<>> THEN [timer |-> NoTimer, heap |-> h]
    ELSE LET rest == SubSeq(h, 1, Len(h) - 1) IN
         IF rest = <<>> THEN [timer |-> h[1], heap |-> <<>>]
         ELSE [timer |-> h[1],
               heap |-> SiftDownToBottom([rest EXCEPT ![1] = h[Len(h)]], 1)]

HeapIds(h) == {h[k].id : k \in 1..Len(h)}

\* ------------------------------------------------------ core/timer_data.rs
EmptyData == [i \in Ids \cup {UnknownId} |-> NoData]

\* TimerData::add_data: HashMap::insert
add_data(m, id, data) == [m EXCEPT ![id] = data]

\* a faulty remove_data that always answers None: C1 must exclude it
remove_data_result_none(m, id) == NoData

\* TimerData::remove_data: HashMap::remove, the value it held or None
remove_data_result(m, id) == m[id]

\* a faulty remove_data that leaves the entry in the map: C2 must exclude it
remove_data_keep(m, id) == m

remove_data(m, id) == [m EXCEPT ![id] = NoData]

\* TimerData::get_data
get_data(m, id) == m[id]

DataIds(m) == {i \in Ids : m[i] # NoData}

\* ----------------------------------------------------------------- oplog.rs
\* LogOperation, as one line of the file.  LogEntry.timestamp is written and
\* never read by any code, and is left out.
SetTimerRec(id, expires_at, data) ==
    [op |-> "SetTimer", timer_id |-> id, expires_at |-> expires_at, data |-> data]

RemoveTimerRec(id) ==
    [op |-> "RemoveTimer", timer_id |-> id, expires_at |-> 0, data |-> NoData]

\* a line serde_json::from_str rejects
Malformed == [op |-> "malformed", timer_id |-> 0, expires_at |-> 0, data |-> NoData]

\* The end of the file is "none", or an unterminated fragment:
\*   "part"       the head of a line this writer could not finish
\*   "split"      the same, cut inside a character of several bytes
\*   "junk"       a fragment an earlier process left (and what this writer
\*                added to it)
\*   "junk_split" a fragment an earlier process left and the head of a line of
\*                this writer, cut inside a character of several bytes
\*   "torn"       a fragment an earlier process left, cut inside a character
JunkTails == {"junk", "junk_split"}

\* What a flush that writes the lines `pending` in full adds to a file whose end
\* is `tl`: after a fragment left by an earlier process the first line written
\* continues that fragment and the two make one malformed line; a fragment this
\* writer left itself is the head of pending[1], which the rest of it completes.
Written(tl, pending) ==
    IF pending = <<>> THEN <<>>
    ELSE IF tl \in JunkTails THEN <<Malformed>> \o Tail(pending)
    ELSE pending

\* What a failed flush leaves at the end of the file, having written j whole
\* lines and then `frag` of the next: nothing, a piece that ends between two
\* characters ("part"), or one that ends inside a character ("split").
TailAfter(tl, j, frag) ==
    CASE frag = "none" -> IF j = 0 THEN tl ELSE "none"
      [] frag = "part" -> IF j = 0 /\ tl \in JunkTails THEN "junk" ELSE "part"
      [] frag = "split" -> IF j = 0 /\ tl \in JunkTails THEN "junk_split" ELSE "split"

\* The end of the file as the next process finds it.
TailAtOpen(tl) ==
    CASE tl = "none" -> "none"
      [] tl \in {"split", "junk_split", "torn"} -> "torn"
      [] OTHER -> "junk"

\* OpLog::read_logs: every line that deserializes, in file order.  The file's
\* unterminated last fragment is a line of reader.lines() too, and is malformed.
RECURSIVE WellFormed(_)
WellFormed(lines) ==
    IF lines = <<>> THEN <<>>
    ELSE IF Head(lines).op = "malformed" THEN WellFormed(Tail(lines))
         ELSE <<Head(lines)>> \o WellFormed(Tail(lines))

read_logs(lines) == WellFormed(lines)

\* `let line = line?`: reader.lines() yields an Err for a line that is not valid
\* UTF-8, and read_logs returns it
read_logs_err(tl) == tl = "torn"

\* ------------------------------------------------------------------- state
VARIABLES
    file,               \* the log file: its complete lines, in order
    tail,               \* its end: "none", or the kind of its unterminated fragment
    buf,                \* OpLog.file: the lines the BufWriter still holds
    heap,               \* Timers.timers: the BinaryHeap's backing vector
    store,              \* TimerData.data
    recovery_complete,  \* TimerShip.recovery_complete
    callback,           \* TimerShip.callback.is_some()
    main,               \* the constructing thread: "recover", "running" or "failed"
    rlogs,              \* recover_from_logs: logs
    ridx,               \* recover_from_logs: the position of `entry` in logs
    disp,               \* the dispatcher thread: pc, timer, now, data, wake
    cl,                 \* the caller threads: pc and the locals of the call
    now,                \* current_time_ms()
    clock_end,          \* the last instant of this run's clock, which stands for
                        \* every later time
    nextId,             \* Uuid::new_v4(): ids are never drawn twice
    crashes,            \* process restarts so far (the current run's number)
    ioerrs,             \* failed flushes so far
    ncalls,             \* API calls begun so far
    args,               \* history: the arguments of the set_timer_at that drew each
                        \* id, and whether the heap was empty when it was called
    returned,           \* history: ids a set_timer_at has returned Ok
    cancelled,          \* history: ids remove_timer has been called with
    calls,              \* history: the callback's invocations
    rets,               \* history: what remove_timer calls returned in this run
    taken               \* history: ids taken out of the heap or the map in this run

vars == <<file, tail, buf, heap, store, recovery_complete, callback, main, rlogs,
          ridx, disp, cl, now, clock_end, nextId, crashes, ioerrs, ncalls, args, returned,
          cancelled, calls, rets, taken>>

logVars == <<file, tail, buf, ioerrs>>
memVars == <<heap, store>>
bootVars == <<recovery_complete, callback, main, rlogs, ridx, crashes, clock_end>>
histVars == <<args, returned, cancelled, calls, rets, taken>>

NoArgs == [expires_at |-> 0, data |-> NoData, alone |-> FALSE]

\* What a thread has of the three mutexes, "log" (OpLog.file), "data"
\* (TimerData.data) and "timers" (Timers.timers): the guards it holds, and the
\* mutex whose lock() it is blocked in ("none": it is in no lock()).
NoLocks == [held |-> {}, want |-> "none"]

\* a faulty method that returns with its MutexGuard still alive: C20 must
\* exclude it
unlock_kept(mx) == mx

\* the MutexGuard (local_timers, local_data, file) is dropped where the method
\* that locked returns
unlock(mx) == NoLocks

Idle == [pc |-> "idle", id |-> 0, expires_at |-> 0, data |-> NoData,
         current_time |-> 0, timers |-> <<>>, idx |-> 0, infos |-> <<>>,
         known |-> {}, dead |-> FALSE, mx |-> NoLocks, text |-> <<>>]

DispAt(pc) == [pc |-> pc, timer |-> NoTimer, now |-> 0, data |-> NoData, wake |-> 0,
               mx |-> NoLocks]

\* TimerShip::with_callback on a log file that does not exist yet, up to the
\* call of recover_from_logs (line 108): OpLog::new has created the file.
Init ==
    /\ file = <<>> /\ tail = "none" /\ buf = <<>>
    /\ heap = <<>> /\ store = EmptyData
    /\ recovery_complete = FALSE
    /\ callback = TRUE
    /\ main = "recover" /\ rlogs = <<>> /\ ridx = 1
    /\ disp = DispAt("unborn")
    /\ cl = [c \in Clients |-> Idle]
    /\ now = 0 /\ clock_end = MaxTime
    /\ nextId = 1 /\ crashes = 0 /\ ioerrs = 0 /\ ncalls = 0
    /\ args = [i \in Ids |-> NoArgs]
    /\ returned = {} /\ cancelled = {} /\ calls = <<>> /\ rets = {} /\ taken = {}

\* ------------------------------------------------------- OpLog::append_log
\* writeln! puts the line in the BufWriter; flush writes all it holds.
AppendOk(rec) ==
    /\ file' = file \o Written(tail, buf \o <<rec>>)
    /\ tail' = "none"
    /\ buf' = <<>>
    /\ ioerrs' = ioerrs

\* flush fails after the file took j whole lines and (frag) a piece of the
\* next: BufWriter keeps what it could not write, and the next flush writes it.
\* The piece can end inside a character when the line has one of several bytes.
AppendErr(rec) ==
    /\ ioerrs < MaxIoErrors
    /\ \E j \in 0..Len(buf), frag \in {"none", "part", "split"} :
         /\ frag = "split" => (buf \o <<rec>>)[j + 1].data \in MultiByte
         /\ file' = file \o Written(tail, SubSeq(buf \o <<rec>>, 1, j))
         /\ tail' = TailAfter(tail, j, frag)
         /\ buf' = SubSeq(buf \o <<rec>>, j + 1, Len(buf) + 1)
    /\ ioerrs' = ioerrs + 1

\* ------------------------------------------- TimerShip::recover_from_logs
\* One entry of `for entry in &logs`.
RecoverApply(h, m, entry) ==
    IF entry.op = "SetTimer"
    THEN [heap |-> add_timer(h, Timer(entry.expires_at, entry.timer_id)),
          store |-> add_data(m, entry.timer_id, entry.data)]
    ELSE [heap |-> remove_timer_queue(h, entry.timer_id),
          store |-> remove_data(m, entry.timer_id)]

\* The state between the two calls made for an entry: add_data has returned
\* and add_timer is to come (SetTimer), remove_timer has returned and
\* remove_data is to come (RemoveTimer).
RecoverHalf(h, m, entry) ==
    IF entry.op = "SetTimer"
    THEN [heap |-> h, store |-> add_data(m, entry.timer_id, entry.data)]
    ELSE [heap |-> remove_timer_queue(h, entry.timer_id), store |-> m]

\* a faulty replay that leaves out the timers whose deadline has passed: C38
\* must exclude it
RecoverStepDropOverdue ==
    /\ main = "recover" /\ ridx <= Len(rlogs)
    /\ IF rlogs[ridx].op = "SetTimer" /\ rlogs[ridx].expires_at <= now
       THEN UNCHANGED memVars
       ELSE /\ heap' = RecoverApply(heap, store, rlogs[ridx]).heap
            /\ store' = RecoverApply(heap, store, rlogs[ridx]).store
    /\ ridx' = ridx + 1
    /\ UNCHANGED <<logVars, recovery_complete, callback, main, rlogs, crashes,
                   clock_end, disp, cl, now, nextId, ncalls, histVars>>

RecoverStep ==
    /\ main = "recover" /\ ridx <= Len(rlogs)
    /\ heap' = RecoverApply(heap, store, rlogs[ridx]).heap
    /\ store' = RecoverApply(heap, store, rlogs[ridx]).store
    /\ ridx' = ridx + 1
    /\ UNCHANGED <<logVars, recovery_complete, callback, main, rlogs, crashes,
                   clock_end, disp, cl, now, nextId, ncalls, histVars>>

\* a faulty with_callback that sets the flag and starts the thread while the
\* replay still has entries to apply: C16 must exclude it
RecoverDoneEarly ==
    /\ main = "recover"
    /\ recovery_complete' = TRUE
    /\ main' = "running"
    /\ rlogs' = <<>> /\ ridx' = 1
    /\ disp' = DispAt("wait")
    /\ UNCHANGED <<logVars, memVars, callback, crashes, clock_end, cl, now, nextId,
                   ncalls, histVars>>

\* recover_from_logs returns; recovery_complete.store(true); thread::spawn
RecoverDone ==
    /\ main = "recover" /\ ridx > Len(rlogs)
    /\ recovery_complete' = TRUE
    /\ main' = "running"
    /\ rlogs' = <<>> /\ ridx' = 1
    /\ disp' = DispAt("wait")
    /\ UNCHANGED <<logVars, memVars, callback, crashes, clock_end, cl, now, nextId,
                   ncalls, histVars>>

\* The whole replay as a function of the lines read.
RECURSIVE Replay(_, _, _)
Replay(h, m, logs) ==
    IF logs = <<>> THEN [heap |-> h, store |-> m]
    ELSE Replay(RecoverApply(h, m, Head(logs)).heap,
                RecoverApply(h, m, Head(logs)).store, Tail(logs))

\* --------------------------- RecoveryManager::recover_from_logs (recovery.rs)
\* a faulty RecoveryManager that leaves the payload of a removed timer in the
\* map: C39 must exclude it
ManagerApplyKeepData(timers, timer_data, entry) ==
    IF entry.op = "SetTimer"
    THEN [heap |-> add_timer(timers, Timer(entry.expires_at, entry.timer_id)),
          store |-> add_data(timer_data, entry.timer_id, entry.data)]
    ELSE [heap |-> remove_timer_queue(timers, entry.timer_id), store |-> timer_data]

\* One entry of `for entry in &logs`: timer_data.add_data and
\* timers.add_timer, or timers.remove_timer and timer_data.remove_data.
ManagerApply(timers, timer_data, entry) ==
    CASE entry.op = "SetTimer" ->
            LET timer == Timer(entry.expires_at, entry.timer_id)
                data == add_data(timer_data, entry.timer_id, entry.data)
            IN  [heap |-> add_timer(timers, timer), store |-> data]
      [] entry.op = "RemoveTimer" ->
            LET left == remove_timer_queue(timers, entry.timer_id)
            IN  [heap |-> left, store |-> remove_data(timer_data, entry.timer_id)]

\* The loop over the entries read, on the Timers and the TimerData given.
RECURSIVE ManagerReplay(_, _, _)
ManagerReplay(timers, timer_data, logs) ==
    IF logs = <<>> THEN [heap |-> timers, store |-> timer_data]
    ELSE ManagerReplay(ManagerApply(timers, timer_data, Head(logs)).heap,
                       ManagerApply(timers, timer_data, Head(logs)).store, Tail(logs))

\* ---------------------------------------------------- the dispatcher thread
\* while !recovery_complete.load() { sleep(10ms) }
DispStart ==
    /\ disp.pc = "wait" /\ recovery_complete
    /\ disp' = DispAt("peek")
    /\ UNCHANGED <<logVars, memVars, bootVars, cl, now, nextId, ncalls, histVars>>

SleepUntil(t) == [DispAt("sleep") EXCEPT !.wake = Min(t, clock_end)]

\* let timer = timer_ship.get_expiring_timer(); None: sleep(100ms)
DispPeek ==
    /\ disp.pc = "peek"
    /\ disp' = IF peek_timer(heap) = NoTimer
               THEN SleepUntil(now + PollInterval)
               ELSE [DispAt("check") EXCEPT !.timer = peek_timer(heap)]
    /\ UNCHANGED <<logVars, memVars, bootVars, cl, now, nextId, ncalls, histVars>>

\* let now = current_time_ms(); if timer.is_expired(now) .. else sleep(time left)
DispCheck ==
    /\ disp.pc = "check"
    /\ disp' = IF is_expired(disp.timer, now)
               THEN [disp EXCEPT !.pc = "remove_log", !.now = now]
               ELSE SleepUntil(now + get_time_left(disp.timer, now))
    /\ UNCHANGED <<logVars, memVars, bootVars, cl, now, nextId, ncalls, histVars>>

\* a faulty dispatcher that, when its sleep toward a timer ends, goes on to
\* remove that timer without a new peek: C31 must exclude it
DispWakeNoPeek ==
    /\ disp.pc = "sleep" /\ now >= disp.wake
    /\ disp' = IF \E i \in returned : args[i].expires_at = disp.wake
               THEN [DispAt("remove_log") EXCEPT
                        !.timer = Timer(disp.wake,
                                        CHOOSE i \in returned :
                                            args[i].expires_at = disp.wake),
                        !.now = now]
               ELSE DispAt("peek")
    /\ UNCHANGED <<logVars, memVars, bootVars, cl, now, nextId, ncalls, histVars>>

\* thread::sleep returns once the duration has passed.  The clock of the model
\* stops at clock_end, which stands for every later time.
DispWake ==
    /\ disp.pc = "sleep" /\ now >= disp.wake
    /\ disp' = DispAt("peek")
    /\ UNCHANGED <<logVars, memVars, bootVars, cl, now, nextId, ncalls, histVars>>

\* a faulty dispatcher that leaves a due timer alone when there is no callback:
\* C18 must exclude it
DispRemoveLogIfCallback ==
    /\ disp.pc = "remove_log"
    /\ IF callback
       THEN \/ /\ AppendOk(RemoveTimerRec(disp.timer.id))
               /\ disp' = [disp EXCEPT !.pc = "remove_queue"]
            \/ /\ AppendErr(RemoveTimerRec(disp.timer.id))
               /\ disp' = DispAt("peek")
       ELSE /\ disp' = SleepUntil(now + PollInterval)
            /\ UNCHANGED logVars
    /\ UNCHANGED <<memVars, bootVars, cl, now, nextId, ncalls, histVars>>

\* a faulty dispatcher that goes on with the removal when the append has
\* failed: C33 must exclude it
DispRemoveLogGoOn ==
    /\ disp.pc = "remove_log"
    /\ \/ AppendOk(RemoveTimerRec(disp.timer.id))
       \/ AppendErr(RemoveTimerRec(disp.timer.id))
    /\ disp' = [disp EXCEPT !.pc = "remove_queue", !.mx = unlock(@)]
    /\ UNCHANGED <<memVars, bootVars, cl, now, nextId, ncalls, histVars>>

\* timer_ship.remove_timer(timer_id): append_log(RemoveTimer)?  Err: log, loop
DispRemoveLog ==
    /\ disp.pc = "remove_log"
    /\ \/ /\ AppendOk(RemoveTimerRec(disp.timer.id))
          /\ disp' = [disp EXCEPT !.pc = "remove_queue", !.mx = unlock(@)]
       \/ /\ AppendErr(RemoveTimerRec(disp.timer.id))
          /\ disp' = DispAt("peek")
    /\ UNCHANGED <<memVars, bootVars, cl, now, nextId, ncalls, histVars>>

\* remove_timer_internal: self.timers.remove_timer(timer_id)
DispRemoveQueue ==
    /\ disp.pc = "remove_queue"
    /\ heap' = remove_timer_queue(heap, disp.timer.id)
    /\ taken' = taken \cup {disp.timer.id}
    /\ disp' = [disp EXCEPT !.pc = "remove_data", !.mx = unlock(@)]
    /\ UNCHANGED <<logVars, store, bootVars, cl, now, nextId, ncalls, args,
                   returned, cancelled, calls, rets>>

\* a faulty dispatcher that invokes the callback also when remove_timer found
\* no payload: C32 must exclude it
DispRemoveDataCallbackAlways ==
    /\ disp.pc = "remove_data"
    /\ store' = remove_data(store, disp.timer.id)
    /\ disp' = IF callback
               THEN [disp EXCEPT !.pc = "callback",
                                 !.data = remove_data_result(store, disp.timer.id),
                                 !.mx = unlock(@)]
               ELSE DispAt("peek")
    /\ UNCHANGED <<logVars, heap, bootVars, cl, now, nextId, ncalls, histVars>>

\* remove_timer_internal: self.timer_data.remove_data(timer_id); Ok(data)
DispRemoveData ==
    /\ disp.pc = "remove_data"
    /\ store' = remove_data(store, disp.timer.id)
    /\ disp' = IF callback /\ remove_data_result(store, disp.timer.id) # NoData
               THEN [disp EXCEPT !.pc = "callback",
                                 !.data = remove_data_result(store, disp.timer.id),
                                 !.mx = unlock(@)]
               ELSE DispAt("peek")
    /\ UNCHANGED <<logVars, heap, bootVars, cl, now, nextId, ncalls, histVars>>

\* callback(timer_id, data)
DispCallback ==
    /\ disp.pc = "callback"
    /\ calls' = Append(calls, [id |-> disp.timer.id, data |-> disp.data])
    /\ disp' = DispAt("peek")
    /\ UNCHANGED <<logVars, memVars, bootVars, cl, now, nextId, ncalls, args,
                   returned, cancelled, rets, taken>>

\* ------------------------------------------------ TimerShip::set_timer_at
CanCall(c) == main = "running" /\ cl[c].pc = "idle" /\ ncalls < MaxCalls

\* a faulty set_timer_at that goes on after a failed append (a missing `?`):
\* C5 must exclude it
SetTimerAtIgnoringErr(c, expires_at, data) ==
    /\ CanCall(c) /\ nextId <= MaxTimers
    /\ nextId' = nextId + 1
    /\ ncalls' = ncalls + 1
    /\ args' = [args EXCEPT ![nextId] = [expires_at |-> expires_at, data |-> data,
                                         alone |-> heap = <<>>]]
    /\ \/ AppendOk(SetTimerRec(nextId, expires_at, data))
       \/ AppendErr(SetTimerRec(nextId, expires_at, data))
    /\ cl' = [cl EXCEPT ![c] = [Idle EXCEPT !.pc = "set_add_data", !.id = nextId,
                                !.expires_at = expires_at, !.data = data]]
    /\ UNCHANGED <<memVars, bootVars, disp, now, returned, cancelled, calls, rets,
                   taken>>

\* Timer::new(expires_at); append_log(SetTimer)?  Err: return it
SetTimerAt(c, expires_at, data) ==
    /\ CanCall(c) /\ nextId <= MaxTimers
    /\ nextId' = nextId + 1
    /\ ncalls' = ncalls + 1
    /\ args' = [args EXCEPT ![nextId] = [expires_at |-> expires_at, data |-> data,
                                         alone |-> heap = <<>>]]
    /\ \/ /\ AppendOk(SetTimerRec(nextId, expires_at, data))
          /\ cl' = [cl EXCEPT ![c] = [Idle EXCEPT !.pc = "set_add_data", !.id = nextId,
                                      !.expires_at = expires_at, !.data = data]]
       \/ /\ AppendErr(SetTimerRec(nextId, expires_at, data))
          /\ cl' = [cl EXCEPT ![c] = Idle]
    /\ UNCHANGED <<memVars, bootVars, disp, now, returned, cancelled, calls, rets,
                   taken>>

\* The duration texts callers pass: "0ms", " 50MS", "200ms", and four the
\* parser rejects: "", "50", "-5ms", "5x".
DurationTexts ==
    { <<"0", "m", "s">>, <<" ", "5", "0", "M", "S">>, <<"2", "0", "0", "m", "s">>,
      <<>>, <<"5", "0">>, <<"-", "5", "m", "s">>, <<"5", "x">> }

\* a faulty set_timer_with_duration that logs the timer before it parses the
\* text: C14 must exclude it
SetTimerWithDurationLogFirst(c, duration_str, data) ==
    /\ CanCall(c)
    /\ LET duration_ms == parse_duration(duration_str) IN
         IF duration_ms.ok
         THEN SetTimerAt(c, IntOf(WrappingAdd(BitsOf(now), duration_ms.ms)), data)
         ELSE /\ nextId <= MaxTimers
              /\ ncalls' = ncalls + 1
              /\ AppendOk(SetTimerRec(nextId, now, data))
              /\ cl' = [cl EXCEPT ![c] = [Idle EXCEPT !.pc = "parse_err",
                                          !.data = duration_ms.err]]
              /\ UNCHANGED <<memVars, bootVars, disp, now, nextId, histVars>>

\* the `+` of two u64 panics when the sum overflows and the build checks
\* overflow (debug): the calling thread unwinds out of the call
AddPanics(c) ==
    /\ ncalls' = ncalls + 1
    /\ cl' = [cl EXCEPT ![c] = [Idle EXCEPT !.pc = "panicked"]]
    /\ UNCHANGED <<logVars, memVars, bootVars, disp, now, nextId, histVars>>

\* TimerShip::set_timer_with_duration: parse_duration(duration_str)?, then
\* set_timer_at(current_time_ms() + duration_ms, data).  The sum is a u64: when
\* it overflows, it wraps in a build without overflow checks (release).
SetTimerWithDuration(c, duration_str, data) ==
    /\ CanCall(c)
    /\ LET duration_ms == parse_duration(duration_str) IN
         IF duration_ms.ok
         THEN \/ SetTimerAt(c, IntOf(WrappingAdd(BitsOf(now), duration_ms.ms)), data)
              \/ Overflows(BitsOf(now), duration_ms.ms) /\ AddPanics(c)
         ELSE /\ ncalls' = ncalls + 1
              /\ cl' = [cl EXCEPT ![c] = [Idle EXCEPT !.pc = "parse_err",
                                          !.data = duration_ms.err]]
              /\ UNCHANGED <<logVars, memVars, bootVars, disp, now, nextId, histVars>>

\* the caller has the ParseError
ParseErrReturn(c) ==
    /\ cl[c].pc = "parse_err"
    /\ cl' = [cl EXCEPT ![c] = Idle]
    /\ UNCHANGED <<logVars, memVars, bootVars, disp, now, nextId, ncalls, histVars>>

\* self.timer_data.add_data(timer_id, data)
SetAddData(c) ==
    /\ cl[c].pc = "set_add_data"
    /\ store' = add_data(store, cl[c].id, cl[c].data)
    /\ cl' = [cl EXCEPT ![c].pc = "set_add_timer", ![c].mx = unlock(@)]
    /\ UNCHANGED <<logVars, heap, bootVars, disp, now, nextId, ncalls, histVars>>

\* self.timers.add_timer(new_timer); Ok(timer_id)
SetAddTimer(c) ==
    /\ cl[c].pc = "set_add_timer"
    /\ heap' = add_timer(heap, Timer(cl[c].expires_at, cl[c].id))
    /\ returned' = returned \cup {cl[c].id}
    /\ cl' = [cl EXCEPT ![c] = Idle]
    /\ UNCHANGED <<logVars, store, bootVars, disp, now, nextId, ncalls, args,
                   cancelled, calls, rets, taken>>

\* ------------------------------------------------ TimerShip::remove_timer
\* The ids a caller can hold: returned by set_timer_at, or seen in
\* list_active_timers / get_expiring_timer.
KnownIds == returned \cup HeapIds(heap)

IsLive(i) == i \in HeapIds(heap) /\ get_data(store, i) # NoData

\* Neither in the heap nor in the payload map: never set, or removed, or
\* dispatched.
IsDead(i) == i \notin HeapIds(heap) /\ get_data(store, i) = NoData

\* append_log(RemoveTimer)?  Err: return it
RemoveTimer(c, i) ==
    /\ CanCall(c) /\ i \in KnownIds \cup {UnknownId}
    /\ ncalls' = ncalls + 1
    /\ cancelled' = cancelled \cup {i}
    /\ \/ /\ AppendOk(RemoveTimerRec(i))
          /\ cl' = [cl EXCEPT ![c] = [Idle EXCEPT !.pc = "remove_queue", !.id = i,
                                      !.known = IF IsLive(i) THEN {i} ELSE {},
                                      !.dead = IsDead(i)]]
       \/ /\ AppendErr(RemoveTimerRec(i))
          /\ cl' = [cl EXCEPT ![c] = Idle]
    /\ UNCHANGED <<memVars, bootVars, disp, now, nextId, args, returned, calls,
                   rets, taken>>

\* a faulty remove_timer_internal that takes the payload out first and leaves
\* the entry of the heap for its second step: C25 must exclude it
RemoveQueueDataFirst(c) ==
    /\ cl[c].pc = "remove_queue"
    /\ store' = remove_data(store, cl[c].id)
    /\ taken' = taken \cup {cl[c].id}
    /\ cl' = [cl EXCEPT ![c].pc = "remove_data", ![c].mx = unlock(@)]
    /\ UNCHANGED <<logVars, heap, bootVars, disp, now, nextId, ncalls, args,
                   returned, cancelled, calls, rets>>

\* remove_timer_internal: self.timers.remove_timer(timer_id)
RemoveQueue(c) ==
    /\ cl[c].pc = "remove_queue"
    /\ heap' = remove_timer_queue(heap, cl[c].id)
    /\ taken' = taken \cup {cl[c].id}
    /\ cl' = [cl EXCEPT ![c].pc = "remove_data", ![c].mx = unlock(@)]
    /\ UNCHANGED <<logVars, store, bootVars, disp, now, nextId, ncalls, args,
                   returned, cancelled, calls, rets>>

\* remove_timer_internal: self.timer_data.remove_data(timer_id); Ok(data)
RemoveData(c) ==
    /\ cl[c].pc = "remove_data"
    /\ store' = remove_data(store, cl[c].id)
    /\ rets' = rets \cup {[id |-> cl[c].id, data |-> remove_data_result(store, cl[c].id),
                           live |-> cl[c].id \in cl[c].known, dead |-> cl[c].dead]}
    /\ cl' = [cl EXCEPT ![c] = Idle]
    /\ UNCHANGED <<logVars, heap, bootVars, disp, now, nextId, ncalls, args,
                   returned, cancelled, calls, taken>>

\* ------------------------------------------ TimerShip::list_active_timers
TimerInfo(t, data, current_time) ==
    [id |-> t.id, expires_at |-> t.expires_at, data |-> data,
     time_left_ms |-> IF t.expires_at > current_time
                      THEN t.expires_at - current_time ELSE 0]

\* timer_infos.sort_by(|a, b| a.expires_at.cmp(&b.expires_at)): a stable sort
RECURSIVE InsertSorted(_, _)
InsertSorted(s, x) ==
    IF s = <<>> THEN <<x>>
    ELSE IF x.expires_at < Head(s).expires_at THEN <<x>> \o s
         ELSE <<Head(s)>> \o InsertSorted(Tail(s), x)

\* a faulty list_active_timers that leaves the entries in the order of the
\* heap's vector: C21 must exclude it
SortByExpiresAtNot(s) == s

RECURSIVE SortByExpiresAt(_)
SortByExpiresAt(s) ==
    IF s = <<>> THEN <<>>
    ELSE InsertSorted(SortByExpiresAt(SubSeq(s, 1, Len(s) - 1)), s[Len(s)])

\* let current_time = current_time_ms(); let timers = self.timers.get_all_timers()
ListBegin(c) ==
    /\ CanCall(c)
    /\ ncalls' = ncalls + 1
    /\ cl' = [cl EXCEPT ![c] = [Idle EXCEPT !.pc = "list_join", !.current_time = now,
                                !.timers = get_all_timers(heap), !.idx = 1,
                                !.known = returned]]
    /\ UNCHANGED <<logVars, memVars, bootVars, disp, now, nextId, histVars>>

\* one turn of `for timer in timers`: get_timer_data(timer.id), push if Some
ListJoin(c) ==
    /\ cl[c].pc = "list_join" /\ cl[c].idx <= Len(cl[c].timers)
    /\ LET t == cl[c].timers[cl[c].idx]
           d == get_data(store, t.id)
       IN  cl' = [cl EXCEPT ![c].idx = @ + 1,
                            ![c].infos = IF d # NoData
                                         THEN Append(@, TimerInfo(t, d, cl[c].current_time))
                                         ELSE @,
                            ![c].mx = unlock(@)]
    /\ UNCHANGED <<logVars, memVars, bootVars, disp, now, nextId, ncalls, histVars>>

\* after the loop: sort_by, and the Vec is the caller's
ListSort(c) ==
    /\ cl[c].pc = "list_join" /\ cl[c].idx > Len(cl[c].timers)
    /\ cl' = [cl EXCEPT ![c].pc = "list_done", ![c].infos = SortByExpiresAt(@),
                        ![c].timers = <<>>, ![c].idx = 0]
    /\ UNCHANGED <<logVars, memVars, bootVars, disp, now, nextId, ncalls, histVars>>

ListReturn(c) ==
    /\ cl[c].pc = "list_done"
    /\ cl' = [cl EXCEPT ![c] = Idle]
    /\ UNCHANGED <<logVars, memVars, bootVars, disp, now, nextId, ncalls, histVars>>

\* ------------------------------------------- TimerShip::active_timer_count
\* self.timers.timer_count(): local_timers.len()
ActiveTimerCount(c) ==
    /\ CanCall(c)
    /\ ncalls' = ncalls + 1
    /\ cl' = [cl EXCEPT ![c] = [Idle EXCEPT !.pc = "count_done", !.idx = Len(heap)]]
    /\ UNCHANGED <<logVars, memVars, bootVars, disp, now, nextId, histVars>>

CountReturn(c) ==
    /\ cl[c].pc = "count_done"
    /\ cl' = [cl EXCEPT ![c] = Idle]
    /\ UNCHANGED <<logVars, memVars, bootVars, disp, now, nextId, ncalls, histVars>>

\* ------------------------------------------------------------ environment
\* The clock advances.
Tick ==
    /\ now < clock_end
    /\ now' = now + TickMs
    /\ UNCHANGED <<logVars, memVars, bootVars, disp, cl, nextId, ncalls, histVars>>

\* The process dies and is started again on the same log file: what is in
\* memory is lost (the BufWriter's lines too), a fragment at the end of the file
\* stays, and with_callback runs again up to the call of recover_from_logs,
\* which has read the file; when read_logs returns an Err, with_callback
\* returns it and there is no engine ("failed").
Crash ==
    /\ crashes < MaxCrashes
    /\ crashes' = crashes + 1
    /\ tail' = TailAtOpen(tail)
    /\ buf' = <<>>
    /\ heap' = <<>> /\ store' = EmptyData
    /\ recovery_complete' = FALSE
    /\ main' = IF read_logs_err(TailAtOpen(tail)) THEN "failed" ELSE "recover"
    /\ rlogs' = IF read_logs_err(TailAtOpen(tail)) THEN <<>> ELSE read_logs(file)
    /\ ridx' = 1
    /\ disp' = DispAt("unborn")
    /\ cl' = [c \in Clients |-> Idle]
    /\ rets' = {} /\ taken' = {}
    /\ UNCHANGED <<file, ioerrs, callback, clock_end, now, nextId, ncalls, args,
                   returned, cancelled, calls>>

\* No thread has a step to take: the dispatcher sleeps and no call is in
\* progress.
TimeCanPass ==
    /\ main = "running"
    /\ disp.pc = "sleep" /\ now < disp.wake
    /\ \A c \in Clients : cl[c].pc = "idle"

\* The clock of a run in which threads take no time between two sleeps.
TickTimed == TimeCanPass /\ Tick

Dispatcher ==
    \/ DispStart \/ DispPeek \/ DispCheck \/ DispWake
    \/ DispRemoveLog \/ DispRemoveQueue \/ DispRemoveData \/ DispCallback

SetRemove(c) ==
    \/ \E e \in Deadlines, d \in Payloads : SetTimerAt(c, e, d)
    \/ SetAddData(c) \/ SetAddTimer(c)
    \/ \E i \in Ids \cup {UnknownId} : RemoveTimer(c, i)
    \/ RemoveQueue(c) \/ RemoveData(c)

ListActive(c) == ListBegin(c) \/ ListJoin(c) \/ ListSort(c) \/ ListReturn(c)

\* One caller thread, the dispatcher, failing flushes, and restarts of the
\* process on the same log file.
Next == RecoverStep \/ RecoverDone \/ Dispatcher \/ SetRemove(1) \/ Tick \/ Crash

Spec == Init /\ [][Next]_vars

\* One run of the process on a new log file: the caller threads, the
\* dispatcher and failing flushes.
NextRun ==
    \/ RecoverDone \/ Dispatcher \/ Tick
    \/ \E c \in Clients : SetRemove(c) \/ ListActive(c)

SpecRun == Init /\ [][NextRun]_vars

\* One run with every flush succeeding, scheduled fairly: the dispatcher
\* thread keeps running and the clock keeps advancing.
InitLive ==
    /\ file = <<>> /\ tail = "none" /\ buf = <<>>
    /\ heap = <<>> /\ store = EmptyData
    /\ recovery_complete = FALSE
    /\ callback = TRUE
    /\ main = "recover" /\ rlogs = <<>> /\ ridx = 1
    /\ disp = DispAt("unborn")
    /\ cl = [c \in Clients |-> Idle]
    /\ now = 0 /\ clock_end = MaxTime
    /\ nextId = 1 /\ crashes = 0 /\ ioerrs = MaxIoErrors /\ ncalls = 0
    /\ args = [i \in Ids |-> NoArgs]
    /\ returned = {} /\ cancelled = {} /\ calls = <<>> /\ rets = {} /\ taken = {}

NextLive == RecoverDone \/ Dispatcher \/ Tick \/ SetRemove(1)

SpecLive ==
    InitLive /\ [][NextLive]_vars /\ WF_vars(Dispatcher) /\ WF_vars(Tick)
             /\ WF_vars(RecoverDone)

\* One run in which the clock advances only while every thread sleeps or is
\* between calls, with or without a callback, every flush succeeding: a caller
\* of set_timer_with_duration and remove_timer, and the dispatcher.
InitAfter ==
    /\ file = <<>> /\ tail = "none" /\ buf = <<>>
    /\ heap = <<>> /\ store = EmptyData
    /\ recovery_complete = FALSE
    /\ callback \in BOOLEAN
    /\ main = "recover" /\ rlogs = <<>> /\ ridx = 1
    /\ disp = DispAt("unborn")
    /\ cl = [c \in Clients |-> Idle]
    /\ now = 0 /\ clock_end = TimedEnd
    /\ nextId = 1 /\ crashes = 0 /\ ioerrs = MaxIoErrors /\ ncalls = 0
    /\ args = [i \in Ids |-> NoArgs]
    /\ returned = {} /\ cancelled = {} /\ calls = <<>> /\ rets = {} /\ taken = {}

SetAfter(c) ==
    \/ \E t \in DurationTexts, d \in Payloads : SetTimerWithDuration(c, t, d)
    \/ ParseErrReturn(c)
    \/ SetAddData(c) \/ SetAddTimer(c)
    \/ \E i \in Ids : RemoveTimer(c, i)
    \/ RemoveQueue(c) \/ RemoveData(c)

NextAfter == RecoverDone \/ Dispatcher \/ TickTimed \/ SetAfter(1)

SpecAfter == InitAfter /\ [][NextAfter]_vars

\* ------------------------------------------- parse_duration over its texts
\* The characters of the texts: digits, the point, the signs, a blank, the
\* letters of the units in lower case and one in upper case, and a letter of
\* no unit.
Alphabet == {"0", "1", "4", "5", ".", "-", "+", " ", "h", "m", "r", "s", "M", "x"}

\* The texts of the tests of duration_parser.rs that are longer than MaxText.
TestTexts ==
    { <<"1", "0", "0", "m", "s">>, <<"1", ".", "5", "h", "r">> }

ParseTexts == UNION {[1..n -> Alphabet] : n \in 0..MaxText} \cup TestTexts

\* The engine on an empty log, its dispatcher started, and a caller that holds
\* the text of the one call it makes.
InitParse ==
    /\ file = <<>> /\ tail = "none" /\ buf = <<>>
    /\ heap = <<>> /\ store = EmptyData
    /\ recovery_complete = TRUE
    /\ callback = TRUE
    /\ main = "running" /\ rlogs = <<>> /\ ridx = 1
    /\ disp = DispAt("wait")
    /\ \E t \in ParseTexts :
         cl = [c \in Clients |-> IF c = 1 THEN [Idle EXCEPT !.text = t] ELSE Idle]
    /\ now = 0 /\ clock_end = MaxTime
    /\ nextId = 1 /\ crashes = 0 /\ ioerrs = MaxIoErrors /\ ncalls = MaxCalls - 1
    /\ args = [i \in Ids |-> NoArgs]
    /\ returned = {} /\ cancelled = {} /\ calls = <<>> /\ rets = {} /\ taken = {}

NextParse ==
    \/ SetTimerWithDuration(1, cl[1].text, "x")
    \/ ParseErrReturn(1) \/ SetAddData(1) \/ SetAddTimer(1)

SpecParse == InitParse /\ [][NextParse]_vars

\* ------------------------------------- set_timer_with_duration: the u64 sum
\* The numbers of the texts: small ones, u64::MAX and a number above it.  The
\* deadlines of the model are integers below 2^31: the texts are those whose
\* sum with the clock is below that or wraps below it.
SumNumbers ==
    { <<"0">>, <<"5", "0">>, <<"2", "0", "0">>,
      <<"1", "8", "4", "4", "6", "7", "4", "4", "0", "7",
        "3", "7", "0", "9", "5", "5", "1", "6", "1", "5">>,
      <<"9", "9", "9", "9", "9", "9", "9", "9", "9", "9",
        "9", "9", "9", "9", "9", "9", "9", "9", "9", "9">> }

Units == {<<"m", "s">>, <<"s">>, <<"m">>, <<"h">>, <<"h", "r">>}

SumTexts ==
    {n \o u : n \in SumNumbers, u \in Units} \cup {<<>>, <<"-", "5", "m", "s">>}

\* A running engine at an instant after the epoch (current_time_ms() is the
\* time since 1970), and a caller with the text of its call.
InitSum ==
    /\ file = <<>> /\ tail = "none" /\ buf = <<>>
    /\ heap = <<>> /\ store = EmptyData
    /\ recovery_complete = TRUE
    /\ callback = TRUE
    /\ main = "running" /\ rlogs = <<>> /\ ridx = 1
    /\ disp = DispAt("wait")
    /\ \E t \in SumTexts :
         cl = [c \in Clients |-> IF c = 1 THEN [Idle EXCEPT !.text = t] ELSE Idle]
    /\ now \in {k * TickMs : k \in 1..MaxTicks} /\ clock_end = MaxTime
    /\ nextId = 1 /\ crashes = 0 /\ ioerrs = MaxIoErrors /\ ncalls = MaxCalls - 1
    /\ args = [i \in Ids |-> NoArgs]
    /\ returned = {} /\ cancelled = {} /\ calls = <<>> /\ rets = {} /\ taken = {}

NextSum ==
    \/ \E d \in Payloads : SetTimerWithDuration(1, cl[1].text, d)
    \/ ParseErrReturn(1) \/ SetAddData(1) \/ SetAddTimer(1)

SpecSum == InitSum /\ [][NextSum]_vars

\* -------------------------------------------------- replay of a given log
\* The ids of the records in a log that earlier runs of the engine wrote.
ReplayIds == Ids \cup {UnknownId}

ReplayEntries ==
    {SetTimerRec(i, e, "x") : i \in ReplayIds, e \in Deadlines}
        \cup {RemoveTimerRec(i) : i \in ReplayIds}

\* The logs of up to MaxLog records: set_timer_at draws a new Uuid for every
\* record it writes, so no two SetTimer records hold the same id.
ReplayLogs ==
    {lg \in UNION {[1..n -> ReplayEntries] : n \in 0..MaxLog} :
        \A j, k \in DOMAIN lg :
            (j # k /\ lg[j].op = "SetTimer" /\ lg[k].op = "SetTimer")
                => lg[j].timer_id # lg[k].timer_id}

\* TimerShip::with_callback on a log file an earlier run left, up to the call
\* of recover_from_logs, which has read it.  Every id of this run's bound was
\* drawn by the earlier runs.
InitReplay ==
    /\ file \in ReplayLogs /\ tail = "none" /\ buf = <<>>
    /\ heap = <<>> /\ store = EmptyData
    /\ recovery_complete = FALSE
    /\ callback = TRUE
    /\ main = "recover" /\ rlogs = read_logs(file) /\ ridx = 1
    /\ disp = DispAt("unborn")
    /\ cl = [c \in Clients |-> Idle]
    /\ now = 0 /\ clock_end = MaxTime
    /\ nextId = MaxTimers + 1 /\ crashes = 0 /\ ioerrs = MaxIoErrors
    /\ ncalls = MaxCalls - 1
    /\ args = [i \in Ids |-> NoArgs]
    /\ returned = {} /\ cancelled = {} /\ calls = <<>> /\ rets = {} /\ taken = {}

\* The replay, then the dispatcher and a caller of list_active_timers.
NextReplay == RecoverStep \/ RecoverDone \/ Dispatcher \/ ListActive(1) \/ Tick

SpecReplay == InitReplay /\ [][NextReplay]_vars

\* The same on the logs of up to MaxLiveLog records, scheduled fairly: the
\* replay goes on, the dispatcher thread keeps running and the clock keeps
\* advancing.
InitReplayLive == InitReplay /\ Len(file) <= MaxLiveLog

SpecReplayLive ==
    InitReplayLive /\ [][NextReplay]_vars
        /\ WF_vars(RecoverStep) /\ WF_vars(RecoverDone)
        /\ WF_vars(Dispatcher) /\ WF_vars(Tick)

\* ------------------------------------------------------- Timers on its own
\* The Uuids of the timers a user of Timers makes with Timer::new.
QueueIds == 1..MaxQueue

TimersAdd ==
    /\ \E i \in QueueIds \ HeapIds(heap), e \in Deadlines :
         heap' = add_timer(heap, Timer(e, i))
    /\ UNCHANGED <<logVars, store, bootVars, disp, cl, now, nextId, ncalls, histVars>>

TimersRemove ==
    /\ \E i \in QueueIds : heap' = remove_timer_queue(heap, i)
    /\ UNCHANGED <<logVars, store, bootVars, disp, cl, now, nextId, ncalls, histVars>>

\* peek_timer: the timer it returns is kept as the one last peeked
TimersPeek ==
    /\ disp' = [disp EXCEPT !.timer = peek_timer(heap)]
    /\ UNCHANGED <<logVars, memVars, bootVars, cl, now, nextId, ncalls, histVars>>

\* pop_timer: the timer it returns is kept as the last one taken
TimersPop ==
    /\ heap' = pop_timer(heap).heap
    /\ taken' = {pop_timer(heap).timer.id}
    /\ UNCHANGED <<logVars, store, bootVars, disp, cl, now, nextId, ncalls, args,
                   returned, cancelled, calls, rets>>

\* Timers::new(), and no engine around it.
InitTimers ==
    /\ file = <<>> /\ tail = "none" /\ buf = <<>>
    /\ heap = <<>> /\ store = EmptyData
    /\ recovery_complete = FALSE
    /\ callback = FALSE
    /\ main = "none" /\ rlogs = <<>> /\ ridx = 1
    /\ disp = DispAt("unborn")
    /\ cl = [c \in Clients |-> Idle]
    /\ now = 0 /\ clock_end = MaxTime
    /\ nextId = 1 /\ crashes = 0 /\ ioerrs = 0 /\ ncalls = 0
    /\ args = [i \in Ids |-> NoArgs]
    /\ returned = {} /\ cancelled = {} /\ calls = <<>> /\ rets = {} /\ taken = {}

NextTimers == TimersAdd \/ TimersRemove \/ TimersPeek \/ TimersPop

SpecTimers == InitTimers /\ [][NextTimers]_vars

\* ---------------------------------------------------- Mutex::lock, by step
\* In the specifications above a method that locks is one step.  Here lock()
\* is two more: the thread enters lock() and waits, and lock() returns the
\* guard when no thread holds the mutex (std::sync::Mutex is not reentrant).

\* The calls a callback makes run on the dispatcher thread, inside
\* callback(timer_id, data): caller 1 stands for them.
CallbackCaller == 1

\* Thread 0 is the dispatcher; the others are the callers outside it.
Threads == {0} \cup (Clients \ {CallbackCaller})

RunsOn(t) == IF t = 0 THEN {disp, cl[CallbackCaller]} ELSE {cl[t]}

HeldBy(t) == UNION {r.mx.held : r \in RunsOn(t)}

Holders(m) == {t \in Threads : m \in HeldBy(t)}

\* The mutex the next statement of the thread locks.
LockAt(r) ==
    CASE r.pc \in {"set_add_data", "remove_data"} -> "data"
      [] r.pc \in {"set_add_timer", "remove_queue", "peek"} -> "timers"
      [] r.pc = "remove_log" -> "log"
      [] r.pc = "list_join" /\ r.idx <= Len(r.timers) -> "data"
      [] OTHER -> "none"

In(r, m) == m \in r.mx.held

Enter(mx, m) == [mx EXCEPT !.want = m]

Grant(mx) == [held |-> mx.held \cup {mx.want}, want |-> "none"]

\* The callers in the first lock() of a call: their calls have begun.
Entering == {c \in Clients : cl[c].pc = "idle" /\ cl[c].mx # NoLocks}

\* A call begins with lock(): of the log in set_timer_at and remove_timer
\* (append_log), of the heap in list_active_timers and active_timer_count.
\* The callback calls set_timer_at or remove_timer, and while it runs only.
LockCall(c) ==
    /\ CanCall(c) /\ cl[c].mx = NoLocks
    /\ ncalls + Cardinality(Entering) < MaxCalls
    /\ c = CallbackCaller => disp.pc = "callback"
    /\ \E m \in IF c = CallbackCaller THEN {"log"} ELSE {"log", "timers"} :
         cl' = [cl EXCEPT ![c].mx = Enter(@, m)]
    /\ UNCHANGED <<logVars, memVars, bootVars, disp, now, nextId, ncalls, histVars>>

\* the next lock() of a call in progress
LockNext(c) ==
    /\ main = "running" /\ cl[c].pc # "idle"
    /\ cl[c].mx.want = "none"
    /\ LockAt(cl[c]) \notin cl[c].mx.held \cup {"none"}
    /\ cl' = [cl EXCEPT ![c].mx = Enter(@, LockAt(cl[c]))]
    /\ UNCHANGED <<logVars, memVars, bootVars, disp, now, nextId, ncalls, histVars>>

\* lock() returns
LockGranted(c) ==
    /\ cl[c].mx.want # "none" /\ Holders(cl[c].mx.want) = {}
    /\ cl' = [cl EXCEPT ![c].mx = Grant(@)]
    /\ UNCHANGED <<logVars, memVars, bootVars, disp, now, nextId, ncalls, histVars>>

DispLock ==
    /\ disp.mx.want = "none"
    /\ LockAt(disp) \notin disp.mx.held \cup {"none"}
    /\ disp' = [disp EXCEPT !.mx = Enter(@, LockAt(disp))]
    /\ UNCHANGED <<logVars, memVars, bootVars, cl, now, nextId, ncalls, histVars>>

DispLockGranted ==
    /\ disp.mx.want # "none" /\ Holders(disp.mx.want) = {}
    /\ disp' = [disp EXCEPT !.mx = Grant(@)]
    /\ UNCHANGED <<logVars, memVars, bootVars, cl, now, nextId, ncalls, histVars>>

\* The dispatcher, each method that locks running with its guard.  The
\* callback returns when the call it made has returned.
DispatcherLocked ==
    \/ DispStart
    \/ DispLock \/ DispLockGranted
    \/ In(disp, "timers") /\ DispPeek
    \/ DispCheck \/ DispWake
    \/ In(disp, "log") /\ DispRemoveLog
    \/ In(disp, "timers") /\ DispRemoveQueue
    \/ In(disp, "data") /\ DispRemoveData
    \/ cl[CallbackCaller] = Idle /\ DispCallback

SetRemoveLocked(c) ==
    \/ LockCall(c) \/ LockNext(c) \/ LockGranted(c)
    \/ In(cl[c], "log") /\ \E e \in Deadlines : SetTimerAt(c, e, "x")
    \/ In(cl[c], "data") /\ SetAddData(c)
    \/ In(cl[c], "timers") /\ SetAddTimer(c)
    \/ In(cl[c], "log") /\ \E i \in Ids \cup {UnknownId} : RemoveTimer(c, i)
    \/ In(cl[c], "timers") /\ RemoveQueue(c)
    \/ In(cl[c], "data") /\ RemoveData(c)

ListCountLocked(c) ==
    \/ In(cl[c], "timers") /\ ListBegin(c)
    \/ In(cl[c], "data") /\ ListJoin(c)
    \/ ListSort(c) \/ ListReturn(c)
    \/ In(cl[c], "timers") /\ ActiveTimerCount(c)
    \/ CountReturn(c)

\* One run, every flush succeeding: the dispatcher with a callback that calls
\* set_timer_at or remove_timer, and the callers outside it.
InitLock ==
    /\ file = <<>> /\ tail = "none" /\ buf = <<>>
    /\ heap = <<>> /\ store = EmptyData
    /\ recovery_complete = FALSE
    /\ callback = TRUE
    /\ main = "recover" /\ rlogs = <<>> /\ ridx = 1
    /\ disp = DispAt("unborn")
    /\ cl = [c \in Clients |-> Idle]
    /\ now = 0 /\ clock_end = MaxTime
    /\ nextId = 1 /\ crashes = 0 /\ ioerrs = MaxIoErrors /\ ncalls = 0
    /\ args = [i \in Ids |-> NoArgs]
    /\ returned = {} /\ cancelled = {} /\ calls = <<>> /\ rets = {} /\ taken = {}

ThreadsNext ==
    \/ DispatcherLocked
    \/ \E c \in Clients : SetRemoveLocked(c)
    \/ \E c \in Clients \ {CallbackCaller} : ListCountLocked(c)

NextLock == RecoverDone \/ ThreadsNext \/ Tick

SpecLock == InitLock /\ [][NextLock]_vars

\* ------------------------------------------------------------------ claims
Invocations(i) == {k \in DOMAIN calls : calls[k].id = i}
Fired(i) == Invocations(i) # {}

\* The dispatcher is between its removal of timer i and the callback for it.
Dispatching(i) ==
    disp.timer.id = i /\ disp.pc \in {"remove_queue", "remove_data", "callback"}

\* C1: in a run without crash and without failed append, with a callback
\* registered, the callback is never invoked twice for an id and always with the
\* payload of the set_timer_at that drew the id, and every timer a set_timer_at
\* has returned is eventually either passed to the callback or cancelled by a
\* remove_timer call.
C1_ExactlyOnce ==
    /\ [](\A i \in Ids : /\ Cardinality(Invocations(i)) <= 1
                         /\ \A k \in Invocations(i) : calls[k].data = args[i].data)
    /\ \A i \in Ids : (i \in returned /\ i \notin cancelled)
                         ~> (Fired(i) \/ i \in cancelled)

\* two timers set and never cancelled, each passed to the callback once
C1_Witness ==
    /\ returned = Ids /\ cancelled = {}
    /\ \A i \in Ids : Cardinality(Invocations(i)) = 1

\* C2: in one run, no timer's payload is both returned by a remove_timer call
\* and passed (or about to be passed) to the callback by the dispatcher.
C2_AtMostOneTaker ==
    \A r \in rets :
        r.data # NoData =>
            /\ ~Fired(r.id)
            /\ ~(disp.pc = "callback" /\ disp.timer.id = r.id)

\* remove_timer(i) began while i was queued, the dispatcher removed i in the
\* meantime: the call returned None and the callback was invoked
C2_Witness ==
    \E r \in rets : r.live /\ r.data = NoData /\ Fired(r.id)

\* C3: whenever the dispatcher is removing a timer as expired or invoking the
\* callback for it, the clock has reached the deadline the timer was set with.
C3_NotBeforeDeadline ==
    disp.pc \in {"remove_log", "remove_queue", "remove_data", "callback"} =>
        /\ disp.timer.expires_at = args[disp.timer.id].expires_at
        /\ now >= args[disp.timer.id].expires_at

\* the callback is about to be invoked while a caller is inside set or remove
C3_Witness ==
    /\ disp.pc = "callback"
    /\ \E c \in Clients : cl[c].pc # "idle"

HasRecord(op, i) ==
    \E k \in DOMAIN file : file[k].op = op /\ file[k].timer_id = i

\* C4: every id in the heap or in the payload map has a SetTimer record in the
\* log file, and every id a remove or a dispatch of this run has taken out of
\* them has a RemoveTimer record in it.
C4_LogFirst ==
    /\ \A i \in HeapIds(heap) \cup DataIds(store) : HasRecord("SetTimer", i)
    /\ \A i \in taken : HasRecord("RemoveTimer", i)

\* The timers of a heap and a payload map, as list_active_timers joins them.
LiveSet(h, m) ==
    {<<h[k].id, h[k].expires_at, m[h[k].id]>> : k \in {n \in DOMAIN h : m[h[n].id] # NoData}}

\* No call is in progress: every caller is between calls and the dispatcher is
\* not inside remove_timer.
Quiescent ==
    /\ main = "running"
    /\ \A c \in Clients : cl[c].pc = "idle"
    /\ disp.pc \notin {"remove_queue", "remove_data"}

\* C6: whenever no call is in progress, replaying the log file into an empty
\* heap and payload map gives exactly the timers the engine holds.
C6_RecoveryFidelity ==
    Quiescent =>
        LiveSet(Replay(<<>>, EmptyData, read_logs(file)).heap,
                Replay(<<>>, EmptyData, read_logs(file)).store)
            = LiveSet(heap, store)

\* C7: after a restart, every timer a set_timer_at has returned, that no
\* remove_timer was called for and that the callback was not invoked for, is
\* queued again (or the dispatcher is on its way to the callback for it).
\* Stated for the runs in which no append has failed, where it already fails.
C7_SurvivesRestart ==
    (crashes > 0 /\ main = "running" /\ ioerrs = 0) =>
        \A i \in returned \ cancelled :
            Fired(i) \/ i \in HeapIds(heap) \/ Dispatching(i)

\* C8: over all runs on the same log file, the callback is invoked at most
\* once for each timer id.
C8_NeverTwice ==
    \A i \in Ids : Cardinality(Invocations(i)) <= 1

\* C5: a step in which a set_timer_at or remove_timer call meets a failed
\* append changes neither the heap nor the payload map, and ends the call: the
\* caller is idle again, holds no id, and no id has been returned.
C5_FailedAppendNoEffect ==
    [][(ncalls' = ncalls + 1 /\ ioerrs' = ioerrs + 1)
          => (heap' = heap /\ store' = store /\ cl' = cl /\ returned' = returned)]_vars

\* a set_timer_at has failed (its id was drawn, is held by no caller and was
\* never returned) while another timer is queued
C5_Witness ==
    /\ ioerrs > 0 /\ heap # <<>>
    /\ \E i \in Ids : /\ i < nextId /\ i \notin returned
                      /\ \A c \in Clients : cl[c].id # i

\* C9: a list_active_timers call holds exactly one entry, with the deadline and
\* the payload of the set_timer_at call, for every id that a set_timer_at had
\* returned before the call began and that is still in the heap and the
\* payload map when the call ends.
C9_ListRoundTrip ==
    \A c \in Clients :
        cl[c].pc = "list_done" =>
            \A i \in cl[c].known :
                IsLive(i) =>
                    /\ Cardinality({k \in DOMAIN cl[c].infos : cl[c].infos[k].id = i}) = 1
                    /\ \A k \in DOMAIN cl[c].infos :
                          cl[c].infos[k].id = i =>
                              /\ cl[c].infos[k].expires_at = args[i].expires_at
                              /\ cl[c].infos[k].data = args[i].data

\* a list of two entries, both of timers still queued
C9_Witness ==
    \E c \in Clients :
        /\ cl[c].pc = "list_done" /\ Len(cl[c].infos) = 2
        /\ \A k \in DOMAIN cl[c].infos :
              cl[c].infos[k].id \in cl[c].known /\ IsLive(cl[c].infos[k].id)

\* Another taker of timer i's payload: the dispatcher, or another remove_timer.
TakenByOther(i) ==
    \/ Fired(i)
    \/ disp.pc = "callback" /\ disp.timer.id = i
    \/ \E r \in rets : r.id = i /\ r.data # NoData

\* C10: a remove_timer(i) that returns a payload returns the one i was set
\* with, and from then on i is neither in the heap (so not in a list, not the
\* peeked timer) nor in the payload map; one that began while i was queued
\* returns None only if the dispatcher or another remove_timer took the payload;
\* and its removal from the heap takes out the entry of i and no other.
C10_RemoveLive ==
    /\ [](\A r \in rets :
            /\ r.data # NoData =>
                  /\ r.data = args[r.id].data
                  /\ r.id \notin HeapIds(heap)
                  /\ get_data(store, r.id) = NoData
                  /\ peek_timer(heap).id # r.id
            /\ (r.live /\ r.data = NoData) => TakenByOther(r.id))
    /\ [][\A c \in Clients :
            (cl[c].pc = "remove_queue" /\ cl'[c].pc = "remove_data") =>
                timer_count(heap') = timer_count(heap)
                    - (IF cl[c].id \in HeapIds(heap) THEN 1 ELSE 0)]_vars

\* a queued timer was removed with its payload while another stays queued
C10_Witness ==
    /\ \E r \in rets : r.live /\ r.data # NoData
    /\ heap # <<>>

\* The number of lines of the log that are RemoveTimer records of id i.
RemoveRecords(lines, i) ==
    Cardinality({k \in DOMAIN lines : lines[k] = RemoveTimerRec(i)})

\* C11: a remove_timer of an id that is neither in the heap nor in the payload
\* map when the call begins (never set, removed or dispatched before) returns
\* None; its successful append adds exactly one RemoveTimer record of that id
\* to the log file; and its two removals leave the heap and the payload map as
\* they were.
C11_RemoveNotLive ==
    /\ [](\A r \in rets : r.dead => r.data = NoData)
    /\ [][\A c \in Clients :
            /\ (cl[c].pc = "idle" /\ cl'[c].pc = "remove_queue" /\ cl'[c].dead) =>
                  RemoveRecords(file', cl'[c].id) = RemoveRecords(file, cl'[c].id) + 1
            /\ (cl[c].pc = "remove_queue" /\ cl[c].dead /\ cl'[c].pc = "remove_data") =>
                  heap' = heap
            /\ (cl[c].pc = "remove_data" /\ cl[c].dead /\ cl'[c].pc = "idle") =>
                  store' = store]_vars

\* the same call without the count of records: what holds of it in every run
C11_ReturnsNoneNoEffect ==
    /\ [](\A r \in rets : r.dead => r.data = NoData)
    /\ [][\A c \in Clients :
            /\ (cl[c].pc = "idle" /\ cl'[c].pc = "remove_queue" /\ cl'[c].dead) =>
                  RemoveRecords(file', cl'[c].id) > RemoveRecords(file, cl'[c].id)
            /\ (cl[c].pc = "remove_queue" /\ cl[c].dead /\ cl'[c].pc = "remove_data") =>
                  heap' = heap
            /\ (cl[c].pc = "remove_data" /\ cl[c].dead /\ cl'[c].pc = "idle") =>
                  store' = store]_vars

\* C12: when the callback is invoked for a timer, no timer with an earlier
\* deadline is queued (returned by its set_timer_at, with its payload) and due.
C12_DispatchOrder ==
    disp.pc = "callback" =>
        \A k \in DOMAIN heap :
            (heap[k].id \in returned /\ IsLive(heap[k].id) /\ now >= heap[k].expires_at)
                => heap[k].expires_at >= disp.timer.expires_at

\* The callers that are inside set_timer_at, after its append.
InSet(c) == cl[c].pc \in {"set_add_data", "set_add_timer"}

\* C13: with callers setting timers concurrently, every id a set_timer_at has
\* returned is in the heap with its payload, or was taken out by a remove or by
\* the dispatcher; the heap holds no id twice; two calls in progress hold
\* different ids; and, when no append has failed, every id drawn was returned or
\* is held by a call still in progress.
C13_NoLostInsert ==
    /\ \A i \in returned : IsLive(i) \/ i \in taken
    /\ Cardinality(HeapIds(heap)) = Len(heap)
    /\ \A c, d \in Clients : (c # d /\ InSet(c) /\ InSet(d)) => cl[c].id # cl[d].id
    /\ ioerrs = 0 =>
          \A i \in 1..(nextId - 1) :
              i \in returned \/ \E c \in Clients : InSet(c) /\ cl[c].id = i

\* two set_timer_at calls overlapped (the second to log was the first to reach
\* the heap) and both timers are queued
C13_Witness ==
    /\ returned = {1, 2} /\ Len(heap) = 2
    /\ heap[1].id = 2 /\ heap[1].expires_at = heap[2].expires_at
    /\ IsLive(1) /\ IsLive(2)

\* C14: a set_timer_with_duration whose text the parser rejects returns the
\* parse error and changes neither the log file, nor the writer's buffer, nor
\* the heap, nor the payload map, and draws no id.
C14_RejectedTextNoEffect ==
    [][\A c \in Clients :
          (cl[c].pc = "idle" /\ cl'[c].pc = "parse_err") =>
              /\ cl'[c].data \in {"InvalidFormat", "InvalidNumber", "UnknownUnit"}
              /\ file' = file /\ tail' = tail /\ buf' = buf
              /\ heap' = heap /\ store' = store
              /\ nextId' = nextId /\ returned' = returned]_vars

\* a caller holds a parse error while a timer set before is queued and logged
C14_Witness ==
    /\ \E c \in Clients : cl[c].pc = "parse_err" /\ cl[c].data = "InvalidNumber"
    /\ heap # <<>> /\ file # <<>>

\* C15: a timer set while the heap was empty, that no remove_timer was called
\* for, has left the heap and the payload map, and was passed once to the
\* callback if there is one, by the time the clock has passed its deadline plus
\* one poll interval (threads take no time between sleeps).
C15_BoundedResponse ==
    \A i \in returned \ cancelled :
        (args[i].alone /\ now > args[i].expires_at + PollInterval) =>
            /\ i \notin HeapIds(heap) /\ get_data(store, i) = NoData
            /\ callback => Cardinality(Invocations(i)) = 1

\* C16: the dispatcher thread is past its wait loop only when the flag is true
\* and the replay is over; the flag is true only when the replay is over; the
\* replay has applied every entry when the flag is set; and within one process
\* the flag, once true, stays true.
C16_RecoveryGate ==
    /\ [](disp.pc \notin {"unborn", "wait"} => (recovery_complete /\ main = "running"))
    /\ [](recovery_complete => main = "running")
    /\ [][(~recovery_complete /\ recovery_complete') => ridx > Len(rlogs)]_vars
    /\ [][(recovery_complete /\ crashes' = crashes) => recovery_complete']_vars

\* after a restart whose replay put a timer back, the dispatcher has peeked it
C16_Witness ==
    /\ crashes > 0 /\ recovery_complete
    /\ disp.pc = "check" /\ disp.timer.id \in HeapIds(heap)

\* The lines of the log that are records, in file order.
Records(lines) == SelectSeq(lines, LAMBDA l : l.op # "malformed")

\* C17: no line of the log file makes read_logs, the replay or with_callback
\* fail; what read_logs returns is every record of the file, in file order,
\* whatever lines lie between them; and the replay leaves the heap and the
\* payload map that these records give.
C17_MalformedSkipped ==
    /\ [](main # "failed")
    /\ [](main = "recover" => rlogs = Records(file))
    /\ [][(main = "recover" /\ main' = "running") =>
             LiveSet(heap, store)
                 = LiveSet(Replay(<<>>, EmptyData, Records(file)).heap,
                           Replay(<<>>, EmptyData, Records(file)).store)]_vars

\* the same for the lines that are text: a line that is not a record is
\* skipped, and the records before and after it are read and replayed
C17_TextLinesSkipped ==
    /\ [](main = "recover" => rlogs = Records(file))
    /\ [][(main = "recover" /\ main' = "running") =>
             LiveSet(heap, store)
                 = LiveSet(Replay(<<>>, EmptyData, Records(file)).heap,
                           Replay(<<>>, EmptyData, Records(file)).store)]_vars

\* C18: without a callback the dispatcher treats a due timer as it does with
\* one: having found it due it appends a RemoveTimer record of its id (when the
\* flush succeeds), and its removal leaves the id neither in the heap nor in the
\* payload map, with the record in the log; the callback is never invoked.
C18_FireAndDrop ==
    /\ [](~callback => calls = <<>>)
    /\ [][(~callback /\ disp.pc = "check" /\ disp' # disp /\ now >= disp.timer.expires_at)
              => disp'.pc = "remove_log"]_vars
    /\ [][(~callback /\ disp.pc = "remove_log" /\ disp' # disp /\ ioerrs' = ioerrs)
              => /\ disp'.pc = "remove_queue"
                 /\ RemoveRecords(file', disp.timer.id) = RemoveRecords(file, disp.timer.id) + 1]_vars
    /\ [][(~callback /\ disp.pc = "remove_data" /\ disp' # disp)
              => /\ disp.timer.id \notin HeapIds(heap')
                 /\ get_data(store', disp.timer.id) = NoData
                 /\ HasRecord("RemoveTimer", disp.timer.id)]_vars

\* without a callback, a timer that no remove_timer was called for has left
\* the heap and the payload map and has its RemoveTimer record
C18_Witness ==
    /\ ~callback
    /\ \E i \in returned \ cancelled :
          IsDead(i) /\ i \in taken /\ HasRecord("RemoveTimer", i)

\* C19: every RemoveTimer record in the log file of an id that a set_timer_at
\* drew (written by a remove_timer of the id or by the dispatcher) comes after
\* a SetTimer record of that id.
C19_SetBeforeRemove ==
    \A k \in DOMAIN file :
        (file[k].op = "RemoveTimer" /\ file[k].timer_id \in Ids) =>
            \E j \in 1..(k - 1) :
                file[j].op = "SetTimer" /\ file[j].timer_id = file[k].timer_id

\* The thread is blocked in lock().
Waits(t) == \E r \in RunsOn(t) : r.mx.want # "none"

\* C20: no thread holds the guard of the heap, of the payload map or of the
\* log while it waits in lock() for another of them; the dispatcher holds none
\* of them when it invokes the callback and while the callback runs; hence,
\* with callers of set, remove, list and count, the dispatcher, and a callback
\* that calls set or remove, a thread that waits for a mutex waits for a thread
\* that is not itself and does not wait, and some thread has a step to take.
C20_LockDiscipline ==
    /\ \A t \in Threads : Waits(t) => HeldBy(t) = {}
    /\ disp.pc = "callback" => disp.mx.held = {}
    /\ \A t \in Threads : \A r \in RunsOn(t) :
         r.mx.want # "none" =>
            \A u \in Holders(r.mx.want) : u # t /\ ~Waits(u)
    /\ (\E t \in Threads : Waits(t) \/ HeldBy(t) # {}) => ENABLED ThreadsNext

\* the callback is running and the call it makes waits in lock() for the log,
\* which a caller outside holds
C20_Witness ==
    /\ disp.pc = "callback"
    /\ cl[CallbackCaller].mx.want = "log"
    /\ \E c \in Clients \ {CallbackCaller} : In(cl[c], "log")
\* The entries of a list in bag form: how many times each occurs.
Occurrences(infos, x) == Cardinality({k \in DOMAIN infos : infos[k] = x})

\* C21: list_active_timers takes every entry of the heap and the time of the
\* call; joins each entry that has a payload in the map with that payload and
\* with time_left_ms = max(expires_at - current_time, 0), and leaves out no
\* such entry; then sorts by ascending expires_at without adding or dropping an
\* entry.  A timer that stays queued through the call is in the result, with
\* time_left_ms = 0 when its deadline has passed.
C21_ListSorted ==
    /\ [](\A c \in Clients :
            cl[c].pc = "list_done" =>
                /\ \A j, k \in DOMAIN cl[c].infos :
                      j < k => cl[c].infos[j].expires_at <= cl[c].infos[k].expires_at
                /\ \A k \in DOMAIN cl[c].infos :
                      cl[c].infos[k].time_left_ms =
                          IF cl[c].infos[k].expires_at > cl[c].current_time
                          THEN cl[c].infos[k].expires_at - cl[c].current_time ELSE 0
                /\ \A k \in DOMAIN heap :
                      IsLive(heap[k].id) =>
                          \E j \in DOMAIN cl[c].infos :
                              /\ cl[c].infos[j].id = heap[k].id
                              /\ cl[c].infos[j].expires_at = heap[k].expires_at
                              /\ heap[k].expires_at <= cl[c].current_time
                                    => cl[c].infos[j].time_left_ms = 0)
    /\ [][\A c \in Clients :
            /\ (cl[c].pc = "idle" /\ cl'[c].pc = "list_join") =>
                  /\ cl'[c].current_time = now
                  /\ Len(cl'[c].timers) = Len(heap)
                  /\ \A k \in DOMAIN heap : \E j \in DOMAIN cl'[c].timers :
                        cl'[c].timers[j] = heap[k]
            /\ (cl[c].pc = "list_join" /\ cl'[c].pc = "list_join"
                   /\ cl'[c].idx = cl[c].idx + 1) =>
                  LET t == cl[c].timers[cl[c].idx] IN
                  cl'[c].infos =
                      IF get_data(store, t.id) = NoData THEN cl[c].infos
                      ELSE Append(cl[c].infos,
                                  [id |-> t.id, expires_at |-> t.expires_at,
                                   data |-> get_data(store, t.id),
                                   time_left_ms |->
                                       IF t.expires_at > cl[c].current_time
                                       THEN t.expires_at - cl[c].current_time ELSE 0])
            /\ (cl[c].pc = "list_join" /\ cl'[c].pc = "list_done") =>
                  /\ Len(cl'[c].infos) = Len(cl[c].infos)
                  /\ \A k \in DOMAIN cl[c].infos :
                        Occurrences(cl'[c].infos, cl[c].infos[k])
                            = Occurrences(cl[c].infos, cl[c].infos[k])]_vars

\* a list of three timers still queued, the first past its deadline and the
\* last not, which the heap's vector holds in another order
C21_Witness ==
    \E c \in Clients :
        /\ cl[c].pc = "list_done" /\ Len(cl[c].infos) = 3 /\ Len(heap) = 3
        /\ cl[c].infos[1].time_left_ms = 0 /\ cl[c].infos[3].time_left_ms > 0
        /\ heap[2].expires_at > heap[3].expires_at
\* <number><unit>: digits, with or without a point and digits after it, and
\* one of the five units, in the text without its outer blanks and in lower
\* case.
NumberPart(t) == SubSeq(to_lowercase(trim(t)), 1, split_pos(to_lowercase(trim(t))))

UnitPart(t) ==
    SubSeq(to_lowercase(trim(t)), split_pos(to_lowercase(trim(t))) + 1, Len(trim(t)))

IsNumber(n) ==
    /\ n # <<>> /\ n[1] \in Digits /\ n[Len(n)] \in Digits
    /\ \A k \in DOMAIN n : n[k] \in Digits \cup {"."}
    /\ Cardinality({k \in DOMAIN n : n[k] = "."}) <= 1

IsUnit(u) == u \in {<<"m", "s">>, <<"s">>, <<"m">>, <<"h">>, <<"h", "r">>}

ValidText(t) == IsNumber(NumberPart(t)) /\ IsUnit(UnitPart(t))

\* the number times the factor of the unit, truncated
TimesFactor(t) ==
    (Mantissa(DigitsOf(NumberPart(t))) * UnitFactor(UnitPart(t)))
        \div Pow10(FractionLen(NumberPart(t)))

\* The call of set_timer_with_duration with the text the caller holds.
Parsed(c) == cl[c].pc = "idle" /\ cl'[c].pc # "idle"

\* C22: for every valid text <number><unit>, parse_duration returns the number
\* times the factor of the unit, truncated: the deadline of the timer that
\* set_timer_with_duration sets is that many milliseconds from now.
C22_ParseValue ==
    [][(Parsed(1) /\ ValidText(cl[1].text)) =>
          /\ cl'[1].pc = "set_add_data"
          /\ cl'[1].expires_at = now + TimesFactor(cl[1].text)]_vars

\* the same for the numbers without a point and for the texts of the tests
\* (100ms, 2.5s, 1m, 1.5hr among them): what holds
C22_WholeNumbers ==
    [][(Parsed(1) /\ ValidText(cl[1].text)
          /\ (FractionLen(NumberPart(cl[1].text)) = 0
                \/ NumberPart(cl[1].text) \in {<<"1", ".", "5">>, <<"2", ".", "5">>})) =>
          /\ cl'[1].pc = "set_add_data"
          /\ cl'[1].expires_at = now + TimesFactor(cl[1].text)]_vars

\* The errors the classification names for a text.
HasLetter(t) == \E k \in DOMAIN t : is_alphabetic(t[k])

\* the part before the first letter
BeforeLetter(t) ==
    LET s == to_lowercase(trim(t)) IN
    SubSeq(s, 1, (CHOOSE k \in DOMAIN s :
                     is_alphabetic(s[k]) /\ \A j \in 1..(k - 1) : ~is_alphabetic(s[j])) - 1)

\* the part from the first letter on
FromLetter(t) ==
    LET s == to_lowercase(trim(t)) IN
    SubSeq(s, Len(BeforeLetter(t)) + 1, Len(s))

ErrorClasses(t) ==
    (IF trim(t) = <<>> \/ ~HasLetter(t) THEN {"InvalidFormat"} ELSE {})
    \cup (IF HasLetter(t) /\ (~is_f64(BeforeLetter(t)) \/ is_negative(BeforeLetter(t)))
          THEN {"InvalidNumber"} ELSE {})
    \cup (IF HasLetter(t) /\ ~IsUnit(FromLetter(t)) THEN {"UnknownUnit"} ELSE {})

\* C23: for a malformed text parse_duration returns no value, and the error
\* is of a class the text is in: InvalidFormat for the empty text and the text
\* without a letter, InvalidNumber when the part before the first letter does
\* not parse as a number or is negative, UnknownUnit when the part from the
\* first letter on is none of ms, s, m, h, hr.
C23_ErrorClass ==
    [][(Parsed(1) /\ ErrorClasses(cl[1].text) # {}) =>
          /\ cl'[1].pc = "parse_err"
          /\ cl'[1].data \in ErrorClasses(cl[1].text)]_vars

\* that it returns no value for such a text, and an error of such a class when
\* the text does not begin with a letter: what holds
C23_NoValue ==
    [][(Parsed(1) /\ ErrorClasses(cl[1].text) # {}) =>
          /\ cl'[1].pc = "parse_err"
          /\ (trim(cl[1].text) = <<>> \/ ~is_alphabetic(trim(cl[1].text)[1]))
                => cl'[1].data \in ErrorClasses(cl[1].text)]_vars

\* C24: a payload exists exactly while its timer exists: in every state
\* another thread can observe, the ids of the payload map are the ids of the
\* heap (set, remove and dispatch change both in one atomic step).
C24_PayloadWhileTimer == DataIds(store) = HeapIds(heap)

\* the same between the calls, when no set, remove or dispatch is under way:
\* what holds
C24_BetweenCalls ==
    (/\ \A c \in Clients : cl[c].pc \notin {"set_add_timer", "remove_data"}
     /\ disp.pc # "remove_data")
        => DataIds(store) = HeapIds(heap)

HasPayload(h, m) == \A k \in DOMAIN h : get_data(m, h[k].id) # NoData

\* C25: in every reachable state, the states between the two steps of
\* set_timer_at, of remove_timer, of a dispatch and of the replay of an entry
\* among them, every id in the heap has a payload in the map.
C25_QueuedHasPayload ==
    /\ HasPayload(heap, store)
    /\ (main = "recover" /\ ridx <= Len(rlogs)) =>
          HasPayload(RecoverHalf(heap, store, rlogs[ridx]).heap,
                     RecoverHalf(heap, store, rlogs[ridx]).store)

\* after a restart whose replay put a timer in the heap: a set_timer_at
\* between add_data and add_timer, its payload in the map and its id not yet
\* in the heap
C25_Witness ==
    /\ crashes >= 1 /\ heap # <<>>
    /\ cl[1].pc = "set_add_timer"
    /\ get_data(store, cl[1].id) # NoData /\ cl[1].id \notin HeapIds(heap)

\* C26: no two entries of the heap have the same id, after any sequence of
\* set_timer_at, remove_timer and dispatcher steps, and after the replay of
\* any log this engine has written.
C26_UniqueIds ==
    \A j, k \in DOMAIN heap : heap[j].id = heap[k].id => j = k

\* the replay of the log of an earlier process has put two timers in the heap
C26_Witness ==
    /\ crashes >= 1 /\ main = "recover" /\ ridx > Len(rlogs)
    /\ Len(heap) = 2 /\ heap[1].id # heap[2].id

\* t is in h and no entry of h has an earlier deadline
IsMinimum(t, h) ==
    /\ \E k \in DOMAIN h : h[k] = t
    /\ \A k \in DOMAIN h : t.expires_at <= h[k].expires_at

\* C27: after any sequence of add_timer, remove_timer and pop_timer,
\* peek_timer returns a timer whose deadline is no later than that of any
\* entry, or None when the heap is empty, and leaves the heap as it is;
\* pop_timer returns such a timer and takes it, and nothing else, out.
C27_PeekPopMinimum ==
    /\ [](IF heap = <<>> THEN peek_timer(heap) = NoTimer
          ELSE IsMinimum(peek_timer(heap), heap))
    /\ [][/\ TimersPeek =>
              /\ heap' = heap
              /\ IF heap = <<>> THEN disp'.timer = NoTimer
                 ELSE IsMinimum(disp'.timer, heap)
          /\ TimersPop =>
              IF heap = <<>> THEN heap' = <<>> /\ taken' = {NoTimer.id}
              ELSE /\ \E k \in DOMAIN heap :
                        /\ taken' = {heap[k].id}
                        /\ IsMinimum(heap[k], heap)
                   /\ Len(heap') = Len(heap) - 1
                   /\ HeapIds(heap') = HeapIds(heap) \ taken'
                   /\ \A k \in DOMAIN heap' : \E j \in DOMAIN heap :
                        heap'[k] = heap[j]]_vars

\* a pop has left three timers, of which the one peeked is the earliest and
\* another is later
C27_Witness ==
    /\ taken # {} /\ Len(heap) = 3
    /\ disp.timer = peek_timer(heap)
    /\ \E k \in DOMAIN heap : heap[k].expires_at > disp.timer.expires_at

\* C28: two queued timers A and B with the same deadline are always ordered
\* the same way: when peek_timer returns A, a peek_timer that follows the
\* add_timer and the remove_timer of another timer does not return B.
C28_TieBreakStable ==
    \A a, b \in DOMAIN heap :
        (/\ heap[a].id # heap[b].id
         /\ heap[a].expires_at = heap[b].expires_at
         /\ peek_timer(heap) = heap[a]) =>
            \A i \in QueueIds \ HeapIds(heap), e \in Deadlines :
                peek_timer(remove_timer_queue(add_timer(heap, Timer(e, i)), i))
                    # heap[b]

\* C29: the replay of the same log onto the heap and the payload map a first
\* replay has produced yields the entries of the heap as they were, none
\* twice and as many, and the same payload map.
C29_ReplayIdempotent ==
    (main = "recover" /\ ridx > Len(rlogs)) =>
        LET again == Replay(heap, store, rlogs) IN
        /\ Len(again.heap) = Len(heap)
        /\ \A k \in DOMAIN again.heap :
              Occurrences(again.heap, again.heap[k]) = Occurrences(heap, again.heap[k])
        /\ again.store = store

\* the same of the payload map alone, and of the heap when the first replay
\* left no timer in it: what holds
C29_StoreIdempotent ==
    (main = "recover" /\ ridx > Len(rlogs)) =>
        /\ Replay(heap, store, rlogs).store = store
        /\ heap = <<>> => Replay(heap, store, rlogs).heap = <<>>

\* C30: a timer inserted with a deadline earlier than the instant the
\* dispatcher is sleeping toward is dispatched within one poll interval after
\* it is due: it is not in the heap later than that while the dispatcher is
\* in that sleep.
C30_BoundedStaleness ==
    \A k \in DOMAIN heap :
        (/\ heap[k].id \in returned
         /\ disp.pc = "sleep"
         /\ heap[k].expires_at < disp.wake) =>
            now <= heap[k].expires_at + PollInterval

\* C31: when a sleep of the dispatcher ends, it peeks the heap again before
\* it does anything else, and goes on with the minimum the heap has then; a
\* timer that a remove_timer took out, with its payload, is never passed to
\* the callback.
C31_RepeekAfterSleep ==
    /\ [][/\ (disp.pc = "sleep" /\ disp' # disp) =>
              /\ disp' = DispAt("peek")
              /\ heap' = heap /\ store' = store /\ file' = file /\ calls' = calls
          /\ (disp.pc = "peek" /\ disp' # disp) =>
              IF heap = <<>> THEN disp'.pc = "sleep" /\ disp'.timer = NoTimer
              ELSE disp'.pc = "check" /\ IsMinimum(disp'.timer, heap)]_vars
    /\ [](\A r \in rets : r.data # NoData => ~Fired(r.id))

\* the dispatcher slept toward a timer that a remove_timer then took; its
\* deadline has passed, the callback was not invoked, and the dispatcher has
\* peeked the other timer
C31_Witness ==
    /\ disp.pc = "check" /\ calls = <<>>
    /\ \E r \in rets :
          /\ r.data # NoData /\ r.id # disp.timer.id
          /\ args[r.id].expires_at < disp.timer.expires_at
          /\ now >= args[r.id].expires_at /\ now > 0

\* C32: the dispatcher takes out of the heap and of the payload map the id
\* it peeked and found due, and nothing else: every entry it takes out has
\* that id and a deadline that has passed, every other entry and payload
\* stays; when a remove_timer has taken the payload before, the dispatcher
\* invokes no callback.
C32_RemovesOnlyPeeked ==
    /\ [][/\ (disp.pc = "remove_queue" /\ disp' # disp) =>
              /\ \A k \in DOMAIN heap :
                    IF heap[k].id = disp.timer.id
                    THEN /\ heap[k].expires_at <= now
                         /\ Occurrences(heap', heap[k]) = 0
                    ELSE Occurrences(heap', heap[k]) = Occurrences(heap, heap[k])
              /\ Len(heap') <= Len(heap)
              /\ store' = store
          /\ (disp.pc = "remove_data" /\ disp' # disp) =>
              /\ heap' = heap
              /\ \A i \in Ids \ {disp.timer.id} : store'[i] = store[i]
              /\ store[disp.timer.id] = NoData =>
                    (store' = store /\ disp'.pc = "peek" /\ calls' = calls)]_vars
    /\ [](disp.pc = "callback" => disp.data # NoData)

\* the dispatcher peeked a due timer, a remove_timer took it and returned its
\* payload, and the dispatcher's own removal then found the heap without it:
\* another timer is queued
C32_Witness ==
    /\ disp.pc = "remove_data" /\ heap # <<>>
    /\ get_data(store, disp.timer.id) = NoData
    /\ \E r \in rets : r.id = disp.timer.id /\ r.data # NoData

\* C33: when the append of the dispatcher's RemoveTimer record fails, the
\* callback is not invoked, the heap and the payload map stay as they are,
\* and the dispatcher goes back to its peek, which finds the timer again if
\* it found it before; when the append succeeds, the dispatcher goes on to
\* take that timer out.
C33_FailedDispatchRetried ==
    [][(disp.pc = "remove_log" /\ disp' # disp) =>
          IF ioerrs' # ioerrs
          THEN /\ heap' = heap /\ store' = store /\ calls' = calls
               /\ disp' = DispAt("peek")
               /\ peek_timer(heap) = disp.timer => peek_timer(heap') = disp.timer
          ELSE /\ disp'.pc = "remove_queue" /\ disp'.timer = disp.timer
               /\ Len(file') > Len(file)]_vars

\* every set_timer_at has succeeded and no remove_timer was called: the
\* append that failed was the dispatcher's, and a timer was passed to the
\* callback after it
C33_Witness ==
    /\ ioerrs = 1 /\ cancelled = {}
    /\ \A c \in Clients : cl[c].pc = "idle"
    /\ nextId = Cardinality(returned) + 1
    /\ returned # {} /\ \A i \in returned : Fired(i)

\* the entry of id j in the heap h, NoTimer when it has none
EntryOf(h, j) ==
    IF j \in HeapIds(h) THEN h[CHOOSE k \in DOMAIN h : h[k].id = j] ELSE NoTimer

\* a caller or the dispatcher is at the step of remove_timer_internal, named
\* by pc, for the id i
Removing(pc, i) ==
    \/ disp.pc = pc /\ disp.timer.id = i /\ disp' # disp
    \/ \E c \in Clients : cl[c].pc = pc /\ cl[c].id = i /\ cl'[c] # cl[c]

\* C34: remove_timer(i) and the dispatch of i leave every other timer as it
\* is: for every id j other than i, the entry of j in the heap (id and
\* expires_at), the number of its entries and its payload are the same before
\* and after each of the two steps of the removal.
C34_OthersUntouched ==
    [][\A i \in Ids \cup {UnknownId} :
          /\ Removing("remove_queue", i) =>
                /\ store' = store
                /\ i \notin HeapIds(heap')
                /\ \A j \in Ids \ {i} :
                      /\ EntryOf(heap', j) = EntryOf(heap, j)
                      /\ Occurrences(heap', EntryOf(heap, j))
                            = Occurrences(heap, EntryOf(heap, j))
          /\ Removing("remove_data", i) =>
                /\ heap' = heap
                /\ get_data(store', i) = NoData
                /\ \A j \in Ids \ {i} : get_data(store', j) = get_data(store, j)]_vars

\* a caller's remove_timer has taken the root out of a heap of two timers: the
\* other is the root now, with its payload
C34_Witness ==
    \E c \in Clients :
        /\ cl[c].pc = "remove_data" /\ cl[c].id \in cl[c].known
        /\ Len(heap) = 1 /\ heap[1].id # cl[c].id
        /\ args[cl[c].id].expires_at < heap[1].expires_at
        /\ get_data(store, heap[1].id) # NoData

IsPrefix(s, t) == Len(s) <= Len(t) /\ SubSeq(t, 1, Len(s)) = s

\* A step in which the append of a set_timer_at, of a caller's remove_timer or
\* of the dispatcher's remove_timer returns Ok: the record it appends.
Appended(rec) ==
    \/ \E c \in Clients :
          /\ cl[c].pc = "idle" /\ cl'[c].pc = "set_add_data"
          /\ rec = SetTimerRec(cl'[c].id, cl'[c].expires_at, cl'[c].data)
    \/ \E c \in Clients :
          /\ cl[c].pc = "idle" /\ cl'[c].pc = "remove_queue"
          /\ rec = RemoveTimerRec(cl'[c].id)
    \/ /\ disp.pc = "remove_log" /\ disp'.pc = "remove_queue"
       /\ rec = RemoveTimerRec(disp.timer.id)

LogRecords ==
    {SetTimerRec(i, e, d) : i \in Ids, e \in Deadlines, d \in Payloads}
        \cup {RemoveTimerRec(i) : i \in Ids \cup {UnknownId}}

\* C35: the log is append-only and totally ordered: the records in the file
\* are a prefix of the file at any later time, and every successful
\* set_timer_at, remove_timer and removal of the dispatcher appends exactly one
\* complete record, its own.
C35_AppendOnly ==
    [][/\ IsPrefix(file, file')
       /\ \A rec \in LogRecords : Appended(rec) => file' = Append(file, rec)]_vars

\* that the lines of the file are a prefix of the file at any later time, and
\* that a successful append adds its own record as the last line, alone when
\* no flush has failed before: what holds
C35_PrefixKept ==
    [][/\ IsPrefix(file, file')
       /\ \A rec \in LogRecords : Appended(rec) =>
             /\ Len(file') > Len(file) /\ file'[Len(file')] = rec
             /\ ioerrs = 0 => file' = Append(file, rec)]_vars

\* C36: for every text parse_duration accepts, set_timer_with_duration sets
\* the deadline now + duration in u64: the call does not fail in the sum, the
\* sum does not wrap, and the deadline is not earlier than now.
C36_DeadlineSum ==
    [][(Parsed(1) /\ parse_duration(cl[1].text).ok) =>
          /\ cl'[1].pc = "set_add_data"
          /\ cl'[1].expires_at >= now
          /\ BitsOf(cl'[1].expires_at)
                = AddBits(BitsOf(now), parse_duration(cl[1].text).ms, 0, <<>>)]_vars

\* the same for the texts whose duration is below u64::MAX - now: what holds
C36_SmallSum ==
    [][(Parsed(1) /\ parse_duration(cl[1].text).ok
          /\ ~Overflows(BitsOf(now), parse_duration(cl[1].text).ms)) =>
          /\ cl'[1].pc = "set_add_data"
          /\ cl'[1].expires_at >= now
          /\ BitsOf(cl'[1].expires_at)
                = AddBits(BitsOf(now), parse_duration(cl[1].text).ms, 0, <<>>)]_vars

\* where read_logs returns the record rec, 0 when it does not
PlaceRead(rec) ==
    IF \E k \in DOMAIN read_logs(file) : read_logs(file)[k] = rec
    THEN CHOOSE k \in DOMAIN read_logs(file) : read_logs(file)[k] = rec
    ELSE 0

\* C37: every record whose append returned Ok is among those read_logs
\* returns from then on, in the order of the appends: the SetTimer record of
\* every id a set_timer_at has returned, those of ids drawn earlier before
\* those of ids drawn later, and the RemoveTimer record of every id taken out
\* after the SetTimer record of that id; also when the file ended with an
\* unterminated line at the time it was opened.
C37_AppendedIsRead ==
    /\ \A i \in returned :
          PlaceRead(SetTimerRec(i, args[i].expires_at, args[i].data)) > 0
    /\ \A i, j \in returned :
          i < j => PlaceRead(SetTimerRec(i, args[i].expires_at, args[i].data))
                     < PlaceRead(SetTimerRec(j, args[j].expires_at, args[j].data))
    /\ \A i \in taken : PlaceRead(RemoveTimerRec(i)) > 0

\* the same in the first process on a new file: what holds
C37_WholeLastLine ==
    (crashes = 0) => C37_AppendedIsRead

\* C38: the replay puts every timer that has a SetTimer record and no
\* RemoveTimer record back in the heap, with its deadline and its payload,
\* whether or not the deadline has passed; the dispatcher does not go to sleep
\* while a timer whose deadline has passed is queued; the callback is invoked
\* for a timer after its RemoveTimer record is appended; and every timer the
\* replay has put back is passed to the callback.
C38_OverdueReplayed ==
    /\ [][(main = "recover" /\ main' = "running") =>
              \A k \in DOMAIN rlogs :
                  (/\ rlogs[k].op = "SetTimer"
                   /\ \A j \in DOMAIN rlogs :
                         ~(rlogs[j].op = "RemoveTimer"
                             /\ rlogs[j].timer_id = rlogs[k].timer_id)) =>
                      /\ Occurrences(heap', Timer(rlogs[k].expires_at, rlogs[k].timer_id)) = 1
                      /\ get_data(store', rlogs[k].timer_id) = rlogs[k].data]_vars
    /\ [][(disp.pc # "sleep" /\ disp'.pc = "sleep") =>
              \A k \in DOMAIN heap : heap[k].expires_at > now]_vars
    /\ [](disp.pc = "callback" =>
              /\ file[Len(file)] = RemoveTimerRec(disp.timer.id)
              /\ disp.timer.id \notin HeapIds(heap))
    /\ \A i \in Ids :
          (main = "running" /\ i \in HeapIds(heap))
              ~> (Fired(i) /\ HasRecord("RemoveTimer", i))

\* the first dispatch after the replay: of a timer whose deadline had passed
\* by a tick of the clock or more when the dispatcher looked, at the callback
\* with its RemoveTimer record appended
C38_Witness ==
    /\ disp.pc = "callback" /\ calls = <<>>
    /\ disp.now >= disp.timer.expires_at + TickMs
    /\ \E k \in DOMAIN file :
          file[k] = SetTimerRec(disp.timer.id, disp.timer.expires_at, disp.data)

\* C39: RecoveryManager::recover_from_logs and TimerShip::recover_from_logs
\* leave the same heap and the same payload map, for every log and every
\* state of the two they start from.
C39_RecoveryEquivalent ==
    ManagerReplay(heap, store, read_logs(file)) = Replay(heap, store, read_logs(file))

\* a heap of two timers and a log with a SetTimer and a RemoveTimer record:
\* the replay onto them changes the heap and the payload map
C39_Witness ==
    /\ Len(heap) = 2
    /\ \E j, k \in DOMAIN read_logs(file) :
          read_logs(file)[j].op = "SetTimer" /\ read_logs(file)[k].op = "RemoveTimer"
    /\ Replay(heap, store, read_logs(file)).heap # heap
    /\ Replay(heap, store, read_logs(file)).store # store
====
